---- MODULE Spec2Model ----
(***************************************************************************)
(* Extraction-and-aggregation pipeline of the QA dashboard scripts:        *)
(*   DashQA.py                processar_dados_extraidos, exibir_dashboard  *)
(*   Dash_Plataforma.py       process_extracted_data, display_dashboard    *)
(*   DashQA_busca_modelo.py   process_extracted_data                       *)
(*   streamlit_app.py         process_extracted_data                       *)
(*   Dash_KPI_readDOC.py      parse_status, extract_data_from_html_doc,    *)
(*                            run_dashboard                                *)
(*                                                                         *)
(* Text is a tuple of one-character strings, so that lower(), substring    *)
(* tests and the \w+ capture of the regular expressions are computed and   *)
(* not assumed.  The letters a-tilde and c-cedilla of the Portuguese       *)
(* literals are written a and c ("Nao Executado"); both are word           *)
(* characters, like the letters they stand for.                            *)
(***************************************************************************)
EXTENDS Integers, Sequences, FiniteSets, TLC

VARIABLES
    variant,              \* which script runs
    genai,                \* google.generativeai as the API key sees it: what list_models() does
    lines,                \* text_data.split('\n') of the uploaded PDF text
    tables,               \* streamlit_app: extracted_data["tables"], flattened to cells
    sections,             \* the uploaded document of the .doc, HTML and XML scripts
    utf8,                 \* whether the uploaded bytes decode as UTF-8
    pc,                   \* position of the script
    i,                    \* 1-based index of the next line of the parse loop
    current_platform,
    current_story_id,
    current_story_title,
    raw_test_data,        \* the records appended so far
    acted,                \* history: <<line index, recognizer>> for every match the code used
    result,               \* what the parse-and-aggregate function returned
    shown,                \* what the dashboard computed from result
    report,               \* the text of the report text area, NoReport before a report
    raised                \* the exception that left the script, NotRaised when none did

vars == <<variant, genai, lines, tables, sections, utf8, pc, i, current_platform,
          current_story_id, current_story_title, raw_test_data, acted,
          result, shown, report, raised>>

-----------------------------------------------------------------------------
(* Bounds of the model *)

MaxLines == 3        \* documents over the full line vocabulary
MaxCoreLines == 5    \* documents over the core line vocabulary
MaxPad == 10         \* filler lines between a test-case header and its status
MaxCells == 3        \* table cells of a streamlit_app document
MaxRows == 3         \* pieces of text the streamlit_app fallback reads
MaxSections == 3     \* headings and tables of a .doc document
MaxXmlNodes == 2     \* children of the root element of an XML document
MaxHtmlItems == 3    \* headings and tables of an HTML report
MaxFindLines == 2    \* lines of a PDF text shown under every API key
MaxCsvLines == 4     \* lines of a document whose grouped counts are exported

-----------------------------------------------------------------------------
(* Text *)

Range(s) == {s[k] : k \in 1..Len(s)}

RECURSIVE SumOver(_, _)
\* sum of f over the finite set S of its domain
SumOver(f, S) ==
    IF S = {} THEN 0
    ELSE LET x == CHOOSE y \in S : TRUE IN f[x] + SumOver(f, S \ {x})

UpperCase == <<"A","B","C","D","E","F","G","H","I","J","K","L","M",
               "N","O","P","Q","R","S","T","U","V","W","X","Y","Z">>
LowerCase == <<"a","b","c","d","e","f","g","h","i","j","k","l","m",
               "n","o","p","q","r","s","t","u","v","w","x","y","z">>

\* str.lower() on one character
LowerChar(c) ==
    IF \E k \in 1..26 : UpperCase[k] = c
    THEN LowerCase[CHOOSE k \in 1..26 : UpperCase[k] = c]
    ELSE c

\* str.lower()
Lower(s) == [k \in 1..Len(s) |-> LowerChar(s[k])]

\* needle in hay
IsSubstring(needle, hay) ==
    \E k \in 0..(Len(hay) - Len(needle)) :
        \A m \in 1..Len(needle) : hay[k + m] = needle[m]

\* Series.str.contains(pat, case=False) on one value
ContainsNoCase(value, pat) == IsSubstring(Lower(pat), Lower(value))

\* \w of the regular expressions; the texts of the model hold letters and blanks
IsWordChar(c) == c # " "

RECURSIVE SkipSpaces(_)
SkipSpaces(s) ==
    IF s # <<>> /\ Head(s) = " " THEN SkipSpaces(Tail(s)) ELSE s

RECURSIVE TakeWord(_)
TakeWord(s) ==
    IF s # <<>> /\ IsWordChar(Head(s)) THEN <<Head(s)>> \o TakeWord(Tail(s)) ELSE <<>>

\* the group of  <label>:\s*(\w+)  on the text that follows the label;
\* <<>> when the pattern does not match
CaptureWord(text) == TakeWord(SkipSpaces(text))

Passou == <<"P","a","s","s","o","u">>
Falhou == <<"F","a","l","h","o","u">>
Falhado == <<"F","a","l","h","a","d","o">>
Bloqueado == <<"B","l","o","q","u","e","a","d","o">>
NaoExecutado == <<"N","a","o"," ","E","x","e","c","u","t","a","d","o">>
passouLower == <<"p","a","s","s","o","u">>


\* platform names; one word each, so (.*) and (\w+) capture the same text
Web == "Web"
Android == "Android"

-----------------------------------------------------------------------------
(* Input lines.  A line is described by the text that follows each label   *)
(* it carries; None is re.search returning None.                           *)

None == <<>>
Some(v) == <<v>>

\* an uncaught exception: the function it was raised in and its type
Raise(in, what) == [in |-> in, what |-> what]
NotRaised == Raise("", "")

BlankLine ==
    [plat |-> None, story |-> None, tc |-> None, res |-> None, est |-> None, com |-> None]

PlatformLine(p) == [BlankLine EXCEPT !.plat = Some(p)]
StoryLine(id, title) == [BlankLine EXCEPT !.story = Some([id |-> id, title |-> title])]
CaseLine(id, name) == [BlankLine EXCEPT !.tc = Some([id |-> id, name |-> name])]
ResLine(t) == [BlankLine EXCEPT !.res = Some(t)]
EstLine(t) == [BlankLine EXCEPT !.est = Some(t)]
CommentLine(c) == [BlankLine EXCEPT !.com = Some(c)]

\* a story header, a test case header and a result line
StoryX == StoryLine("ABC-100", "Title X")
CaseX == CaseLine("ABC-101", "Check X")
ResPassou == ResLine(Passou)

CoreLines ==
    { StoryX, CaseX, CaseLine("ABC-102", "Check Y"), ResPassou, ResLine(Falhou) }

FullLines ==
    CoreLines \cup
    { BlankLine,
      PlatformLine(Web), PlatformLine(Android),
      StoryLine("ABC-200", ""),
      ResLine(NaoExecutado), ResLine(passouLower), EstLine(Falhado),
      CommentLine("bug PH-1"),
      [CaseX EXCEPT !.res = Some(Passou)],                    \* header and result on one line
      [StoryLine("ABC-200", "") EXCEPT !.res = Some(Falhou)], \* story header carrying a result
      [ResPassou EXCEPT !.est = Some(Falhado)] }              \* both status labels on one line

\* str.split('\n') returns at least one line
SeqsUpTo(S, n) == UNION {[1..k -> S] : k \in 1..n}

\* a story, one test case, filler lines and then its result
PaddedInputs ==
    { <<StoryX, CaseX>> \o [k \in 1..n |-> BlankLine] \o <<ResPassou>> : n \in 0..MaxPad }

TextInputs == SeqsUpTo(FullLines, MaxLines) \cup SeqsUpTo(CoreLines, MaxCoreLines)
                  \cup PaddedInputs

\* the lines the status-line-driven scripts tell apart
StatusDrivenLines ==
    { BlankLine, CaseX, StoryX, StoryLine("ABC-200", ""),
      PlatformLine(Web), PlatformLine(Android),
      ResPassou, ResLine(Falhou), ResLine(NaoExecutado), EstLine(Falhado),
      [StoryLine("ABC-200", "") EXCEPT !.res = Some(Falhou)],
      [ResPassou EXCEPT !.est = Some(Falhado)] }

StatusDrivenInputs == SeqsUpTo(StatusDrivenLines, MaxLines)

-----------------------------------------------------------------------------
(* DashQA.py: processar_dados_extraidos *)

NaoIdentificado == "Nao Identificado"
\* the sentinel of Dash_Plataforma.py
NaoIdentificada == "Nao Identificada"
LookAhead == 10

\* mutant of regex_platform: no line is taken for a platform header
regex_platform_blind(line) == None

\* regex_platform = r'\d+\. Plataforma:\s*(.*)', group(1).strip()
regex_platform(line) == line.plat
\* regex_story = r'Suite de Testes\s*:\s*([A-Z]+-\d+)\s*(.*)'
regex_story(line) == line.story
\* regex_test_case = r'Caso de Teste\s*([A-Z]+-\d+):\s*(.*)'
regex_test_case(line) == line.tc
\* regex_status_res = r'Resultado da Execução:\s*(\w+)'
regex_status_res(line) ==
    IF line.res = None \/ CaptureWord(line.res[1]) = <<>>
    THEN None ELSE Some(CaptureWord(line.res[1]))
\* regex_status_est = r'Estado da\s*Execução:\s*(\w+)'
regex_status_est(line) ==
    IF line.est = None \/ CaptureWord(line.est[1]) = <<>>
    THEN None ELSE Some(CaptureWord(line.est[1]))
\* regex_comments = r'Comentários\s*(.*)\s*https:\/\/.*'
regex_comments(line) == line.com

\* one pass of the body of  for j in range(i, min(i + 10, len(lines)))
ScanLine(line, found) ==
    LET s1 == IF regex_status_res(line) # None THEN regex_status_res(line)[1] ELSE found.status
        s2 == IF regex_status_est(line) # None THEN regex_status_est(line)[1] ELSE s1
        c  == IF regex_comments(line) # None THEN regex_comments(line)[1] ELSE found.comments
    IN [status |-> s2, comments |-> c]

\* mutant of ScanEnd: the header line and the 10 lines after it are searched
ScanEndTenAfter(k, n) == IF k + LookAhead < n THEN k + LookAhead ELSE n

\* mutant of ScanEnd: only the header line itself is searched
ScanEndHeaderOnly(k, n) == k

\* the last line index (1-based) the scan started at line k reads
ScanEnd(k, n) == IF k + LookAhead - 1 < n THEN k + LookAhead - 1 ELSE n

RECURSIVE ScanFrom(_, _, _, _)
ScanFrom(ls, j, hi, found) ==
    IF j > hi THEN found ELSE ScanFrom(ls, j + 1, hi, ScanLine(ls[j], found))

\* status and comments of the test case whose header is line k
ScanStatus(ls, k) ==
    ScanFrom(ls, k, ScanEnd(k, Len(ls)), [status |-> NaoExecutado, comments |-> ""])

\* the matches the scan of the test case at line k used
ScanActs(ls, k) ==
    { <<j, "status">> : j \in { m \in k..ScanEnd(k, Len(ls)) :
            regex_status_res(ls[m]) # None \/ regex_status_est(ls[m]) # None } }
    \cup { <<j, "comment">> : j \in { m \in k..ScanEnd(k, Len(ls)) :
            regex_comments(ls[m]) # None } }

\* mutant of SetCursor: a cursor once set is kept, the first header wins
SetCursorOnce(current, captured) ==
    IF current \in {NaoIdentificado, NaoIdentificada} THEN captured ELSE current

\* current_x = match.group(n).strip(): the cursor takes the value of the header
SetCursor(current, captured) == captured

\* if current_story_id != "Não Identificado": raw_test_data.append({...})
AppendCase(data, rec) ==
    IF rec.story_id # NaoIdentificado THEN Append(data, rec) ELSE data

\* one iteration of  for i, line in enumerate(lines)
QAStep ==
    /\ variant = "DashQA"
    /\ pc = "parse"
    /\ i <= Len(lines)
    /\ LET line == lines[i] IN
         IF regex_platform(line) # None THEN
            /\ current_platform' = SetCursor(current_platform, regex_platform(line)[1])
            /\ acted' = acted \cup {<<i, "platform">>}
            /\ UNCHANGED <<current_story_id, current_story_title, raw_test_data>>
         ELSE IF regex_story(line) # None THEN
            /\ current_story_id' = SetCursor(current_story_id, regex_story(line)[1].id)
            /\ current_story_title' = SetCursor(current_story_title, regex_story(line)[1].title)
            /\ acted' = acted \cup {<<i, "story">>}
            /\ UNCHANGED <<current_platform, raw_test_data>>
         ELSE IF regex_test_case(line) # None THEN
            /\ raw_test_data' = AppendCase(raw_test_data,
                  [platform |-> current_platform,
                   story_id |-> current_story_id,
                   story_title |-> current_story_title,
                   test_case_id |-> regex_test_case(line)[1].id,
                   test_case_name |-> regex_test_case(line)[1].name,
                   status |-> ScanStatus(lines, i).status,
                   comments |-> ScanStatus(lines, i).comments,
                   line |-> i])       \* history: the line that triggered the record
            /\ acted' = acted \cup {<<i, "test_case">>} \cup ScanActs(lines, i)
            /\ UNCHANGED <<current_platform, current_story_id, current_story_title>>
         ELSE
            UNCHANGED <<current_platform, current_story_id, current_story_title,
                        raw_test_data, acted>>
    /\ i' = i + 1
    /\ UNCHANGED <<variant, genai, lines, tables, sections, utf8, report, raised, pc, result, shown>>

-----------------------------------------------------------------------------
(* Numbers.  A quotient a / b is kept exact as num/den; raised records the  *)
(* ZeroDivisionError of a division by 0.                                    *)

Div(a, b) ==
    IF b = 0 THEN [raised |-> TRUE, num |-> 0, den |-> 1]
             ELSE [raised |-> FALSE, num |-> a, den |-> b]
Times(q, n) == [q EXCEPT !.num = @ * n]
Number(n) == [raised |-> FALSE, num |-> n, den |-> 1]

\* mutant of Percent: the division without its guard
PercentUnguarded(part, whole) == Times(Div(part, whole), 100)

\* (part / whole) * 100 if whole > 0 else 0
Percent(part, whole) ==
    IF whole > 0 THEN Times(Div(part, whole), 100) ELSE Number(0)

\* q is the number n
IsNumber(q, n) == ~q.raised /\ q.num = n * q.den

-----------------------------------------------------------------------------
(* Aggregation shared by the text parsers *)

Indices(data) == 1..Len(data)

\* df.groupby(columns).size(), keys being the key of every row: one count per key
\* mutant of GroupSize: every group counts one row
GroupSizeOne(keys) == [k \in Range(keys) |-> 1]

GroupSize(keys) ==
    [k \in Range(keys) |-> Cardinality({n \in Indices(keys) : keys[n] = k})]

\* df['status'].replace('Falhou', 'Falhado') on one value
ReplaceFalhou(status) == IF status = Falhou THEN Falhado ELSE status

UnifyStatus(data) ==
    [n \in Indices(data) |-> [data[n] EXCEPT !.status = ReplaceFalhou(@)]]

\* mutant of IsPassed: the case-sensitive equality of the per-story KPIs
IsPassedExact(rec) == rec.status = Passou

\* df['status'].str.contains("Passou", case=False, na=False)
IsPassed(rec) == ContainsNoCase(rec.status, Passou)
\* mutant of IsExecuted: no record is taken for executed
IsExecutedNever(rec) == FALSE

\* ~df['status'].str.contains("Não Executado", case=False, na=False)
IsExecuted(rec) == ~ContainsNoCase(rec.status, NaoExecutado)

\* the kpis dictionary of a non-empty record table
Kpis(df) ==
    LET total_cases == Len(df)
        passed_cases == Cardinality({n \in Indices(df) : IsPassed(df[n])})
        executed_cases == Cardinality({n \in Indices(df) : IsExecuted(df[n])})
    IN [total_cases |-> total_cases,
        passed_cases |-> passed_cases,
        executed_cases |-> executed_cases,
        percent_execution |-> Percent(executed_cases, total_cases),
        percent_success |-> Percent(passed_cases, executed_cases)]

\* groupby('status').size()
StatusCounts(df) == GroupSize([n \in Indices(df) |-> df[n].status])
EmptyFrame == <<>>
EmptyDict == <<>>

\* the returned dictionary when raw_test_data is empty, after st.warning
EmptyResult ==
    [warning |-> TRUE, df_status |-> EmptyFrame, kpis |-> EmptyDict,
     grouped |-> EmptyFrame, df_records |-> EmptyFrame]

\* mutant of ErrorShown: the sample dashboard is drawn for the upload
SampleInstead == [error |-> FALSE, panels |-> <<>>, dashboard |-> "sample"]

\* main: st.error(...) when the returned table is empty; no dashboard is drawn
ErrorShown == [error |-> TRUE, panels |-> <<>>, dashboard |-> "none"]

\* main: the dashboard of the processed data, with its per-group panels
Dashboard(panels) == [error |-> FALSE, panels |-> panels, dashboard |-> "real"]

\* DashQA: groupby(['platform', 'story_id', 'story_title', 'status'])
QAGroupKey(rec) == <<rec.platform, rec.story_id, rec.story_title, rec.status>>

\* the tail of processar_dados_extraidos, after the loop
processar_dados_extraidos(data) ==
    IF data = <<>> THEN EmptyResult
    ELSE LET df_stories == UnifyStatus(data)
         IN [warning |-> FALSE,
             df_status |-> StatusCounts(df_stories),
             kpis |-> Kpis(df_stories),
             grouped |-> GroupSize([n \in Indices(df_stories) |-> QAGroupKey(df_stories[n])]),
             df_records |-> df_stories]

QAAggregate ==
    /\ variant = "DashQA"
    /\ pc = "parse"
    /\ i > Len(lines)
    /\ result' = processar_dados_extraidos(raw_test_data)
    /\ pc' = "processed"
    /\ UNCHANGED <<variant, genai, lines, tables, sections, utf8, report, raised, i, current_platform,
                   current_story_id, current_story_title, raw_test_data, acted, shown>>

-----------------------------------------------------------------------------
(* DashQA.py: exibir_dashboard, the per-story panels *)

\* story_kpis of the records of one platform with one story_id
story_kpis(df, platform, story_id) ==
    LET story_data == {n \in Indices(df) :
                          df[n].platform = platform /\ df[n].story_id = story_id}
        total == Cardinality(story_data)
        passed == Cardinality({n \in story_data : df[n].status = Passou})
        executed == Cardinality({n \in story_data : df[n].status # NaoExecutado})
    IN [total_cases |-> total,
        passed_cases |-> passed,
        executed_cases |-> executed,
        percent_execution |-> Percent(executed, total),
        percent_success |-> Percent(passed, executed)]

\* one panel per row of platform_data[['story_id', 'story_title']].drop_duplicates()
exibir_dashboard(df) ==
    [p \in {<<df[n].platform, df[n].story_id, df[n].story_title>> : n \in Indices(df)} |->
        [key |-> <<p[1], p[2]>>, kpis |-> story_kpis(df, p[1], p[2])]]

\* main: exibir_dashboard when df_stories is not empty, st.error otherwise
QADisplay ==
    /\ variant = "DashQA"
    /\ pc = "processed"
    /\ shown' = IF result.grouped # EmptyFrame
                THEN Dashboard(exibir_dashboard(result.df_records))
                ELSE ErrorShown
    /\ pc' = "done"
    /\ UNCHANGED <<variant, genai, lines, tables, sections, utf8, report, raised, i, current_platform,
                   current_story_id, current_story_title, raw_test_data, acted, result>>

-----------------------------------------------------------------------------
(* Dash_Plataforma.py: process_extracted_data, display_dashboard *)

\* regex_platform = r'\d*\.?\s*Plataforma\s*:\s*(\w+)', re.IGNORECASE
regex_platform_P(line) == line.plat
\* regex_story = r'Suite de Testes\s*:\s*([\w-]+)'
regex_story_P(line) == IF line.story = None THEN None ELSE Some(line.story[1].id)
\* mutant of status_match: only 'Resultado da Execucao' is looked for
status_match_res_only(line) == regex_status_res(line)

\* regex_status_res.search(line) or regex_status_est.search(line)
status_match(line) ==
    IF regex_status_res(line) # None THEN regex_status_res(line) ELSE regex_status_est(line)

\* one iteration of  for line in lines
PlatStep ==
    /\ variant = "Plataforma"
    /\ pc = "parse"
    /\ i <= Len(lines)
    /\ LET line == lines[i] IN
         IF regex_platform_P(line) # None THEN
            /\ current_platform' = SetCursor(current_platform, regex_platform_P(line)[1])
            /\ acted' = acted \cup {<<i, "platform">>}
            /\ UNCHANGED <<current_story_id, raw_test_data>>
         ELSE IF regex_story_P(line) # None THEN
            /\ current_story_id' = SetCursor(current_story_id, regex_story_P(line)[1])
            /\ acted' = acted \cup {<<i, "story">>}
            /\ UNCHANGED <<current_platform, raw_test_data>>
         ELSE IF status_match(line) # None THEN
            /\ raw_test_data' = Append(raw_test_data,
                  [platform |-> current_platform,
                   story_id |-> current_story_id,
                   status |-> status_match(line)[1],
                   line |-> i])       \* history: the line that triggered the record
            /\ acted' = acted \cup {<<i, "status">>}
            /\ UNCHANGED <<current_platform, current_story_id>>
         ELSE
            UNCHANGED <<current_platform, current_story_id, raw_test_data, acted>>
    /\ i' = i + 1
    /\ UNCHANGED <<variant, genai, lines, tables, sections, utf8, report, raised, pc, current_story_title,
                   result, shown>>

\* groupby(['platform', 'story_id', 'status'])
PlatGroupKey(rec) == <<rec.platform, rec.story_id, rec.status>>

\* the tail of Dash_Plataforma.process_extracted_data, after the loop
process_extracted_data_P(data) ==
    IF data = <<>> THEN EmptyResult
    ELSE LET df_tests == UnifyStatus(data)
         IN [warning |-> FALSE,
             df_status |-> StatusCounts(df_tests),
             kpis |-> Kpis(df_tests),
             grouped |-> GroupSize([n \in Indices(df_tests) |-> PlatGroupKey(df_tests[n])]),
             df_records |-> df_tests]

PlatAggregate ==
    /\ variant = "Plataforma"
    /\ pc = "parse"
    /\ i > Len(lines)
    /\ result' = process_extracted_data_P(raw_test_data)
    /\ pc' = "processed"
    /\ UNCHANGED <<variant, genai, lines, tables, sections, utf8, report, raised, i, current_platform,
                   current_story_id, current_story_title, raw_test_data, acted, shown>>

\* platform_kpis of the records of one platform
platform_kpis(df, platform) ==
    LET platform_data == {n \in Indices(df) : df[n].platform = platform}
        total == Cardinality(platform_data)
        passed == Cardinality({n \in platform_data : df[n].status = Passou})
        executed == Cardinality({n \in platform_data : df[n].status # NaoExecutado})
    IN [total_cases |-> total,
        passed_cases |-> passed,
        executed_cases |-> executed,
        percent_success |-> Percent(passed, executed)]

\* one panel per platform of df_tests['platform'].unique()
display_dashboard_P(df) ==
    [p \in {df[n].platform : n \in Indices(df)} |->
        [key |-> p, kpis |-> platform_kpis(df, p)]]

\* main: display_dashboard when df_tests is not empty, st.error otherwise
PlatDisplay ==
    /\ variant = "Plataforma"
    /\ pc = "processed"
    /\ shown' = IF result.df_records # EmptyFrame
                THEN Dashboard(display_dashboard_P(result.df_records))
                ELSE ErrorShown
    /\ pc' = "done"
    /\ UNCHANGED <<variant, genai, lines, tables, sections, utf8, report, raised, i, current_platform,
                   current_story_id, current_story_title, raw_test_data, acted, result>>

-----------------------------------------------------------------------------
(* DashQA_busca_modelo.py: process_extracted_data, display_dashboard *)

\* regex_story = r'Suite de Testes\s*:\s*([A-Z]+-\d+)'
regex_story_B(line) == IF line.story = None THEN None ELSE Some(line.story[1].id)

\* one iteration of  for line in lines
BuscaStep ==
    /\ variant = "BuscaModelo"
    /\ pc = "parse"
    /\ i <= Len(lines)
    /\ LET line == lines[i] IN
         IF regex_story_B(line) # None THEN
            /\ current_story_id' = SetCursor(current_story_id, regex_story_B(line)[1])
            /\ acted' = acted \cup {<<i, "story">>}
            /\ UNCHANGED raw_test_data
         ELSE IF status_match(line) # None THEN
            /\ raw_test_data' = Append(raw_test_data,
                  [story_id |-> current_story_id,
                   status |-> status_match(line)[1],
                   line |-> i])       \* history: the line that triggered the record
            /\ acted' = acted \cup {<<i, "status">>}
            /\ UNCHANGED current_story_id
         ELSE
            UNCHANGED <<current_story_id, raw_test_data, acted>>
    /\ i' = i + 1
    /\ UNCHANGED <<variant, genai, lines, tables, sections, utf8, report, raised, pc, current_platform,
                   current_story_title, result, shown>>

\* groupby(['story_id', 'status'])
BuscaGroupKey(rec) == <<rec.story_id, rec.status>>

\* the tail of DashQA_busca_modelo.process_extracted_data; df_stories is the grouped table
process_extracted_data_B(data) ==
    IF data = <<>> THEN EmptyResult
    ELSE LET df_stories == UnifyStatus(data)
         IN [warning |-> FALSE,
             df_status |-> StatusCounts(df_stories),
             kpis |-> Kpis(df_stories),
             grouped |-> GroupSize([n \in Indices(df_stories) |-> BuscaGroupKey(df_stories[n])]),
             df_records |-> df_stories]

BuscaAggregate ==
    /\ variant = "BuscaModelo"
    /\ pc = "parse"
    /\ i > Len(lines)
    /\ result' = process_extracted_data_B(raw_test_data)
    /\ pc' = "processed"
    /\ UNCHANGED <<variant, genai, lines, tables, sections, utf8, report, raised, i, current_platform,
                   current_story_id, current_story_title, raw_test_data, acted, shown>>

\* story_kpis of the rows of the grouped table with one story_id
story_kpis_B(grouped, story_id) ==
    LET rows == {k \in DOMAIN grouped : k[1] = story_id}
        total == SumOver(grouped, rows)
        passed == SumOver(grouped, {k \in rows : k[2] = Passou})
        executed == SumOver(grouped, {k \in rows : k[2] # NaoExecutado})
    IN [total_cases |-> total,
        passed_cases |-> passed,
        executed_cases |-> executed,
        percent_execution |-> Percent(executed, total),
        percent_success |-> Percent(passed, executed)]

\* one panel per story of df_stories['story_id'].unique()
display_dashboard_B(grouped) ==
    [s \in {k[1] : k \in DOMAIN grouped} |->
        [key |-> s, kpis |-> story_kpis_B(grouped, s)]]

Gemini == <<"g","e","m","i","n","i","-">>
Pro == <<"p","r","o">>
gemini_15_pro == Gemini \o <<"1",".","5","-">> \o Pro
gemini_10_pro == Gemini \o <<"1",".","0","-">> \o Pro
gemini_pro == Gemini \o Pro
\* mutant of preferred_models: the list in the opposite order
preferred_models_reversed == <<gemini_pro, gemini_10_pro, gemini_15_pro>>

\* preferred_models, in the order of the list
preferred_models == <<gemini_15_pro, gemini_10_pro, gemini_pro>>

\* the models list_models() may yield: m.name carries the "models/" prefix
\* and may carry a suffix
ModelsPrefix == <<"m","o","d","e","l","s","/">>
Model(name, methods) == [name |-> name, supported_generation_methods |-> methods]
ListedModels ==
    { Model(ModelsPrefix \o gemini_15_pro \o <<"-","l","a","t","e","s","t">>,
            {"generateContent", "countTokens"}),
      Model(ModelsPrefix \o gemini_15_pro, {"countTokens"}),
      Model(ModelsPrefix \o gemini_10_pro, {"generateContent"}),
      Model(ModelsPrefix \o gemini_pro \o <<"-","v","i","s","i","o","n">>,
            {"generateContent"}),
      Model(ModelsPrefix \o <<"e","m","b","e","d","d","i","n","g">>,
            {"embedContent"}) }

\* genai for one API key: list_models() returns models or raises
Listing(models) == [raises |-> "", models |-> models]
ListingRaises(exc) == [raises |-> exc, models |-> {}]
GenaiInstances ==
    {Listing(ms) : ms \in SUBSET ListedModels}
        \cup {ListingRaises("FailedPrecondition"), ListingRaises("Exception")}

IaNaoConfigurada == "Erro: IA nao configurada."
NenhumModelo == "Nenhum modelo compativel encontrado para a sua chave de API."
ErroPreCondicao == "Erro de pre-condicao da API."
ErroAoListar == "Ocorreu um erro ao listar os modelos"

Found(model_name) == [model_name |-> Some(model_name), error_message |-> None]
NotFound(error_message) == [model_name |-> None, error_message |-> Some(error_message)]

\* find_available_model; genai_instance is None or Some(genai)
find_available_model(genai_instance) ==
    IF genai_instance = None THEN NotFound(IaNaoConfigurada)
    ELSE IF genai_instance[1].raises = "FailedPrecondition" THEN NotFound(ErroPreCondicao)
    ELSE IF genai_instance[1].raises # "" THEN NotFound(ErroAoListar)
    ELSE LET all_models ==
                 {m.name : m \in {x \in genai_instance[1].models :
                      "generateContent" \in x.supported_generation_methods}}
             found == {k \in 1..Len(preferred_models) :
                          \E m \in all_models : IsSubstring(preferred_models[k], m)}
         IN IF found # {}
            THEN Found(preferred_models[CHOOSE k \in found : \A x \in found : k <= x])
            ELSE NotFound(NenhumModelo)

\* if error_message:  None and the empty string are false
Truthy(text) == text # None /\ text[1] # ""

\* the AI section of display_dashboard: skipped without genai_instance, an
\* st.error when the lookup gave an error message, the summary button otherwise
AiSection(genai_instance) ==
    IF genai_instance = None
    THEN [looked_up |-> FALSE, offered |-> FALSE, model_name |-> None, error_message |-> None]
    ELSE LET found == find_available_model(genai_instance)
         IN [looked_up |-> TRUE,
             offered |-> ~Truthy(found.error_message),
             model_name |-> found.model_name,
             error_message |-> found.error_message]

\* main: display_dashboard(processed_data, genai) when df_stories is not
\* empty, st.error otherwise
BuscaDisplay ==
    /\ variant = "BuscaModelo"
    /\ pc = "processed"
    /\ shown' = IF result.grouped # EmptyFrame
                THEN [error |-> FALSE,
                      panels |-> display_dashboard_B(result.grouped),
                      dashboard |-> "real",
                      ai |-> AiSection(Some(genai))]
                ELSE ErrorShown
    /\ pc' = "done"
    /\ UNCHANGED <<variant, genai, lines, tables, sections, utf8, report, raised, i, current_platform,
                   current_story_id, current_story_title, raw_test_data, acted, result>>

-----------------------------------------------------------------------------
(* streamlit_app.py: process_extracted_data *)

Total == <<"T","o","t","a","l">>

\* the cells of the extracted tables; <<>> is an empty cell
Cells == { Passou, Falhou, Falhado, NaoExecutado, Total, <<>> }

\* the pieces of text_data.split("\\n"), as the fallback reads them: the
\* "Status | Total" header, a row "<status> | <int>", or anything else
HeaderRow == [kind |-> "header", status |-> <<>>, total |-> 0]
OtherRow == [kind |-> "other", status |-> <<>>, total |-> 0]
StatusRow(st, n) == [kind |-> "row", status |-> st, total |-> n]

FallbackRows ==
    { HeaderRow, OtherRow, StatusRow(Passou, 1), StatusRow(Passou, 0),
      StatusRow(NaoExecutado, 1), StatusRow(Falhou, 1) }

\* status_keywords, in the order of the list
status_keywords == <<Passou, Falhado, Bloqueado, NaoExecutado, Falhou>>

\* status_counts[keyword] after the loops over tables, rows and cells
KeywordCount(cells, keyword) ==
    Cardinality({n \in 1..Len(cells) :
        cells[n] # <<>> /\ IsSubstring(Lower(keyword), Lower(cells[n]))})

RECURSIVE KeywordRows(_, _)
\* pd.DataFrame(list(status_counts.items())) restricted to Total > 0
KeywordRows(cells, k) ==
    IF k > Len(status_keywords) THEN <<>>
    ELSE (IF KeywordCount(cells, status_keywords[k]) > 0
          THEN <<[Status |-> status_keywords[k],
                  Total |-> KeywordCount(cells, status_keywords[k])]>>
          ELSE <<>>) \o KeywordRows(cells, k + 1)

RECURSIVE FallbackData(_, _, _)
\* status_data of the text fallback; found is table_header_found
FallbackData(rows, k, found) ==
    IF k > Len(rows) THEN <<>>
    ELSE IF rows[k].kind = "header" THEN FallbackData(rows, k + 1, TRUE)
    ELSE IF found /\ rows[k].kind = "row"
         THEN <<[Status |-> rows[k].status, Total |-> rows[k].total]>>
                  \o FallbackData(rows, k + 1, found)
    ELSE FallbackData(rows, k + 1, found)

\* df[rows]["Total"].sum(), rows being the indices of the rows selected
SumTotal(df, rows) == SumOver([n \in Indices(df) |-> df[n].Total], rows)

RowPassed(row) == ContainsNoCase(row.Status, Passou)
RowExecuted(row) == ~ContainsNoCase(row.Status, NaoExecutado)

\* the kpis of streamlit_app.process_extracted_data
KpisOfCounts(df_status) ==
    IF df_status = <<>> THEN EmptyDict
    ELSE LET total_cases == SumTotal(df_status, Indices(df_status))
             passed_cases == SumTotal(df_status,
                                 {n \in Indices(df_status) : RowPassed(df_status[n])})
             executed_cases == SumTotal(df_status,
                                 {n \in Indices(df_status) : RowExecuted(df_status[n])})
         IN [total_cases |-> total_cases,
             passed_cases |-> passed_cases,
             executed_cases |-> executed_cases,
             percent_execution |-> Percent(executed_cases, total_cases),
             percent_success |-> Percent(passed_cases, executed_cases)]

process_extracted_data_S(cells, rows) ==
    LET df_status == IF KeywordRows(cells, 1) # <<>> THEN KeywordRows(cells, 1)
                     ELSE FallbackData(rows, 1, FALSE)
    IN [warning |-> FALSE, df_status |-> df_status, kpis |-> KpisOfCounts(df_status),
        grouped |-> EmptyFrame, df_records |-> EmptyFrame]

\* main: process_extracted_data, then display_dashboard or st.error
StreamlitProcess ==
    /\ variant = "StreamlitApp"
    /\ pc = "parse"
    /\ result' = process_extracted_data_S(tables, lines)
    /\ shown' = IF result'.df_status # <<>> THEN Dashboard(<<>>) ELSE ErrorShown
    /\ pc' = "done"
    /\ UNCHANGED <<variant, genai, lines, tables, sections, utf8, report, raised, i, current_platform,
                   current_story_id, current_story_title, raw_test_data, acted>>

-----------------------------------------------------------------------------
(* Dash_KPI_readDOC.py: parse_status, extract_data_from_html_doc, run_dashboard *)

total_tcs_per_platform == 20

\* the text of a platform heading, after "Plataforma:"
WEB == <<"W","E","B">>
MobileAndroid == <<"M","o","b","i","l","e"," ","A","n","d","r","o","i","d">>
MobileIOS == <<"M","O","B","I","L","E"," ","i","O","S">>
Desktop == <<"D","e","s","k","t","o","p">>

Heading(text) == [kind |-> "heading", text |-> text, has_result |-> FALSE, is_str |-> FALSE]
\* a table with a 'Resultado da Execução' row whose last cell is the string text
ResultTable(text) == [kind |-> "table", text |-> text, has_result |-> TRUE, is_str |-> TRUE]
\* a table whose result cell is empty (NaN, not a string)
NaNTable == [kind |-> "table", text |-> <<>>, has_result |-> TRUE, is_str |-> FALSE]
\* a table without a 'Resultado da Execução' row
OtherTable == [kind |-> "table", text |-> <<>>, has_result |-> FALSE, is_str |-> FALSE]

\* a status text that parse_status does not know
Outro == <<"O","u","t","r","o">>

\* a result table without a header row: its column labels are numbers, and
\* re.search on the first of them raises TypeError
HeaderlessTable ==
    [kind |-> "headerless", text |-> Passou, has_result |-> TRUE, is_str |-> TRUE]

DocItems ==
    { Heading(WEB), Heading(MobileAndroid), Heading(MobileIOS), Heading(Desktop),
      ResultTable(Passou), ResultTable(Falhado), ResultTable(Falhou),
      ResultTable(NaoExecutado), ResultTable(Outro), NaNTable, OtherTable,
      HeaderlessTable }

\* parse_status; None is <<>>
parse_status(is_str, status_text) ==
    IF ~is_str THEN None
    ELSE IF IsSubstring(Lower(Passou), Lower(status_text)) THEN Passou
    ELSE IF IsSubstring(Lower(Falhado), Lower(status_text))
            \/ IsSubstring(Lower(Falhou), Lower(status_text)) THEN Falhou
    ELSE IF IsSubstring(Lower(Bloqueado), Lower(status_text)) THEN Bloqueado
    ELSE IF IsSubstring(Lower(NaoExecutado), Lower(status_text)) THEN NaoExecutado
    ELSE None

\* current_platform after a heading section
PlatformOfHeading(text, current) ==
    IF IsSubstring(Lower(MobileAndroid), Lower(text)) THEN "android"
    ELSE IF IsSubstring(Lower(MobileIOS), Lower(text)) THEN "ios"
    ELSE IF IsSubstring(Lower(WEB), Lower(text)) THEN "web"
    ELSE current

NoPlatform == "None"
Platforms == {"web", "android", "ios"}

\* d[k] of a defaultdict(int)
Get(d, k) == IF k \in DOMAIN d THEN d[k] ELSE 0
\* d[k] = v
Put(d, k, v) == [x \in DOMAIN d \cup {k} |-> IF x = k THEN v ELSE d[x]]

RECURSIVE CountSections(_, _, _, _)
\* test_data after the loop over platform_sections
CountSections(doc, k, current, data) ==
    IF k > Len(doc) THEN data
    ELSE IF doc[k].kind = "heading"
         THEN CountSections(doc, k + 1, PlatformOfHeading(doc[k].text, current), data)
    ELSE IF current # NoPlatform /\ doc[k].has_result
            /\ parse_status(doc[k].is_str, doc[k].text) # None
         THEN LET st == parse_status(doc[k].is_str, doc[k].text)
              IN CountSections(doc, k + 1, current,
                     [data EXCEPT ![current] = Put(@, st, Get(@, st) + 1)])
    ELSE CountSections(doc, k + 1, current, data)

RECURSIVE RaisesInLoop(_, _, _)
\* an exception is raised inside the loop over platform_sections
RaisesInLoop(doc, k, current) ==
    IF k > Len(doc) THEN FALSE
    ELSE IF doc[k].kind = "heading"
         THEN RaisesInLoop(doc, k + 1, PlatformOfHeading(doc[k].text, current))
    ELSE IF current # NoPlatform /\ doc[k].has_result /\ doc[k].kind = "headerless"
         THEN TRUE
    ELSE RaisesInLoop(doc, k + 1, current)

\* test_data of  return None, None, None
NoData == <<>>

SumValues(d) == SumOver(d, DOMAIN d)

\* the back-fill of 'Não Executado' up to total_tcs_per_platform
BackFill(d) ==
    IF SumValues(d) < total_tcs_per_platform
    THEN Put(d, NaoExecutado, total_tcs_per_platform - SumValues(d))
    ELSE d

\* decode('utf-8'), and decode('latin-1') on UnicodeDecodeError: the codec that
\* produced html_content
decode(decodable) == IF decodable THEN "utf-8" ELSE "latin-1"

\* test_data as returned; an exception in the loop is caught by
\* except Exception: st.error, return None, None, None
extract_data_from_html_doc(doc) ==
    LET counted == CountSections(doc, 1, NoPlatform, [p \in Platforms |-> <<>>])
    IN IF RaisesInLoop(doc, 1, NoPlatform) THEN NoData
       ELSE [p \in Platforms |-> BackFill(counted[p])]

DocExtract ==
    /\ variant = "ReadDOC"
    /\ pc = "parse"
    /\ result' = [test_data |-> extract_data_from_html_doc(sections),
                  codec |-> decode(utf8),
                  error |-> RaisesInLoop(sections, 1, NoPlatform)]
    /\ pc' = "processed"
    /\ UNCHANGED <<variant, genai, lines, tables, sections, utf8, report, raised, i, current_platform,
                   current_story_id, current_story_title, raw_test_data, acted, shown>>

\* sum(... for platform in test_data.values()), per being the term of each platform
SumPlatforms(per) == SumOver(per, DOMAIN per)

ExecutedOf(d) == SumOver(d, {st \in DOMAIN d : st # NaoExecutado})
PassouOf(d) == Get(d, Passou)
FalhouOf(d) == Get(d, Falhou)
BloqueadoOf(d) == Get(d, Bloqueado)

\* the KPIs at the head of run_dashboard
run_dashboard(test_data) ==
    LET P == DOMAIN test_data
        total_testes == SumPlatforms([p \in P |-> SumValues(test_data[p])])
        executados == SumPlatforms([p \in P |-> ExecutedOf(test_data[p])])
        total_passou == SumPlatforms([p \in P |-> PassouOf(test_data[p])])
        total_falhou == SumPlatforms([p \in P |-> FalhouOf(test_data[p])])
        total_bloqueado == SumPlatforms([p \in P |-> BloqueadoOf(test_data[p])])
    IN [total_cases |-> total_testes,
        executed_cases |-> executados,
        passed_cases |-> total_passou,
        percent_execution |-> Percent(executados, total_testes),
        percent_success |-> Percent(total_passou, executados),
        taxa_defeito |-> Percent(total_falhou, executados),
        taxa_bloqueio |-> Percent(total_bloqueado, executados)]

\* main: run_dashboard(test_data, ...) when test_data is returned
DocDisplay ==
    /\ variant = "ReadDOC"
    /\ pc = "processed"
    /\ shown' = IF result.test_data # NoData
                THEN [error |-> FALSE, panels |-> <<>>, dashboard |-> "real",
                      kpis |-> run_dashboard(result.test_data)]
                ELSE ErrorShown
    /\ pc' = "done"
    /\ UNCHANGED <<variant, genai, lines, tables, sections, utf8, report, raised, i, current_platform,
                   current_story_id, current_story_title, raw_test_data, acted, result>>

-----------------------------------------------------------------------------
(* Dashxml.py: parse_testlink_xml and the page that shows its records *)

Desconhecido == <<"D","e","s","c","o","n","h","e","c","i","d","o">>

\* an element of the XML tree; execution is the first <execution> child and
\* status the text of its first <status> child, None when the node is absent
Element(tag, name, execution, children) ==
    [tag |-> tag, name |-> name, execution |-> execution, children |-> children]
TestCase(name, execution) == Element("testcase", name, execution, <<>>)
TestSuite(children) == Element("testsuite", "", None, children)
Execution(status) == Some([status |-> status])

XmlLeaves ==
    { TestCase("A", None),                          \* no <execution>
      TestCase("A", Execution(None)),               \* <execution> without <status>
      TestCase("A", Execution(Some("p"))),
      TestCase("B", Execution(Some("f"))),
      TestCase("B", Execution(Some("b"))),
      TestCase("A", Execution(Some("n"))),
      TestCase("B", Execution(Some("x"))),          \* a code outside p, f, b, n
      TestCase("B", Execution(Some(""))),           \* <status/>: its text is None
      TestCase("B", Execution(Some("P"))) }         \* the code of 'passed' in upper case

XmlNodes ==
    XmlLeaves
    \cup { TestSuite(<<c>>) : c \in {TestCase("C", Execution(Some("p"))),
                                     TestCase("C", None)} }
    \cup { Element("testcase", "D", Execution(Some("f")),
                   <<TestCase("E", Execution(Some("p")))>>) }

\* the documents ET.parse accepts: a root element and its children
XmlRoots ==
    { TestSuite(cs) : cs \in {<<>>} \cup SeqsUpTo(XmlNodes, MaxXmlNodes) }
    \cup { Element("testcase", "R", Execution(Some("p")), <<>>) }

\* an upload ET.parse rejects with ParseError
Malformed == [tag |-> "malformed", name |-> "", execution |-> None, children |-> <<>>]

RECURSIVE findall_testcase(_)
RECURSIVE FindInChildren(_, _)
\* the <testcase> elements among the children from the k-th on and below them
FindInChildren(children, k) ==
    IF k > Len(children) THEN <<>>
    ELSE (IF children[k].tag = "testcase" THEN <<children[k]>> ELSE <<>>)
            \o findall_testcase(children[k]) \o FindInChildren(children, k + 1)
\* root.findall('.//testcase'): the descendants of the node, in document order
findall_testcase(node) == FindInChildren(node.children, 1)

\* status_map.get(status_char, 'Desconhecido')
status_map(status_char) ==
    CASE status_char = "p" -> Passou
      [] status_char = "f" -> Falhou
      [] status_char = "b" -> Bloqueado
      [] status_char = "n" -> NaoExecutado
      [] OTHER -> Desconhecido

\* status_node.text if status_node is not None else 'n'
status_char_of(testcase) ==
    IF testcase.execution # None /\ testcase.execution[1].status # None
    THEN testcase.execution[1].status[1]
    ELSE "n"

\* the body of  for testcase in root.findall('.//testcase')
XmlRecord(testcase) ==
    [name |-> testcase.name, Status |-> status_map(status_char_of(testcase))]

\* what parse_testlink_xml returns and displays; returned is FALSE for None
ParseOutcome(returned, test_cases, error, warning, codec) ==
    [returned |-> returned, test_cases |-> test_cases, error |-> error,
     warning |-> warning, codec |-> codec]

\* parse_testlink_xml on bytes that decode as UTF-8
parse_testlink_xml(root) ==
    IF root.tag = "malformed"
    THEN ParseOutcome(FALSE, <<>>, TRUE, FALSE, "utf-8")     \* except ET.ParseError
    ELSE LET found == findall_testcase(root)
         IN ParseOutcome(TRUE, [n \in Indices(found) |-> XmlRecord(found[n])],
                         FALSE, FALSE, "utf-8")

\* data = parse_testlink_xml(uploaded_file); UnicodeDecodeError is not an
\* ET.ParseError and leaves the function
XmlParse ==
    /\ variant = "Dashxml"
    /\ pc = "parse"
    /\ IF utf8
       THEN /\ result' = parse_testlink_xml(sections)
            /\ pc' = "processed"
            /\ UNCHANGED raised
       ELSE /\ raised' = Raise("parse_testlink_xml", "UnicodeDecodeError")
            /\ pc' = "done"
            /\ UNCHANGED result
    /\ UNCHANGED <<variant, genai, lines, tables, sections, utf8, report, i, current_platform,
                   current_story_id, current_story_title, raw_test_data, acted, shown>>

\* the metrics of the page, shown  if data:
XmlMetrics(df) ==
    LET total_tests == Len(df)
        passed_tests == Cardinality({n \in Indices(df) : df[n].Status = Passou})
    IN [total_tests |-> total_tests,
        passed_tests |-> passed_tests,
        failed_tests |-> Cardinality({n \in Indices(df) : df[n].Status = Falhou}),
        blocked_tests |-> Cardinality({n \in Indices(df) : df[n].Status = Bloqueado}),
        pass_rate |-> Percent(passed_tests, total_tests),
        status_counts |-> GroupSize([n \in Indices(df) |-> df[n].Status])]

\* if data: ... ; an empty list and None show nothing
XmlDisplay ==
    /\ variant = "Dashxml"
    /\ pc = "processed"
    /\ shown' = IF result.returned /\ result.test_cases # <<>>
                THEN [error |-> result.error, panels |-> <<>>, dashboard |-> "real",
                      metrics |-> XmlMetrics(result.test_cases)]
                ELSE [error |-> result.error, panels |-> <<>>, dashboard |-> "none"]
    /\ pc' = "done"
    /\ UNCHANGED <<variant, genai, lines, tables, sections, utf8, report, raised, i,
                   current_platform, current_story_id, current_story_title,
                   raw_test_data, acted, result>>

-----------------------------------------------------------------------------
(* Dash_html_read.py and dashboard_testlink.py: parse_testlink_html, the    *)
(* same function in both scripts, and the page that shows its records       *)

HtmlScripts == {"HtmlRead", "TestlinkHtml"}

SuiteLabel == "Suite de Testes :"
SuiteUnknown == "Suite Desconhecida"
NameNotFound == "Nome nao encontrado"

\* an <h3>; its text is the words in order
H3(words) == [kind |-> "h3", words |-> words]

\* a <tr>: whether the text of its first <td> holds 'Resultado da Execução:'
\* or 'Notas', and its second <td> (None when the row has one cell), bold
\* being the text of the first <b> of that cell (None when it has none)
Row(result_label, notes_label, second) ==
    [result_label |-> result_label, notes_label |-> notes_label, second |-> second]
Cell(bold, text) == Some([bold |-> bold, text |-> text])
ResultRow(status) == Row(TRUE, FALSE, Cell(Some(status), ""))
NotesRow(text) == Row(FALSE, TRUE, Cell(None, text))

\* a <table>: its class, the text of its first <th>, its own rows with <td>
\* cells and the tables nested in a last row of its own
Table(tc, th, rows, nested) ==
    [kind |-> "table", tc |-> tc, th |-> th, rows |-> rows, nested |-> nested]

HtmlItems ==
    { H3(<<SuiteLabel, "S1">>), H3(<<"S2">>),
      Table(TRUE, Some("Case 1"), <<ResultRow(Passou)>>, <<>>),
      Table(TRUE, Some("Case 2"), <<>>, <<>>),
      Table(TRUE, None, <<ResultRow(Falhou), ResultRow(Passou)>>, <<>>),
      Table(TRUE, Some("Case 4"), <<Row(TRUE, FALSE, Cell(None, "Passou"))>>, <<>>),
      Table(TRUE, Some("Case 5"), <<Row(TRUE, FALSE, None), NotesRow("bug ABC-1")>>, <<>>),
      Table(FALSE, None, <<ResultRow(Bloqueado)>>, <<>>),
      Table(TRUE, Some("Case 7"), <<>>,
            <<Table(TRUE, Some("Case 8"), <<ResultRow(Falhou)>>, <<>>)>>) }

HtmlDocs == {<<>>} \cup SeqsUpTo(HtmlItems, MaxHtmlItems)

RECURSIVE find_all_tr(_)
RECURSIVE RowsOfTables(_, _)
RowsOfTables(ts, k) ==
    IF k > Len(ts) THEN <<>> ELSE find_all_tr(ts[k]) \o RowsOfTables(ts, k + 1)
\* table.find_all('tr'), rows without <td> left out: the rows of the table and
\* of the tables nested in it, in document order
find_all_tr(table) == table.rows \o RowsOfTables(table.nested, 1)

RECURSIVE FlattenTables(_, _, _)
\* the elements of the document in document order, nested tables after the
\* table that holds them; each with the index of its top-level item
FlattenTables(items, k, top) ==
    IF k > Len(items) THEN <<>>
    ELSE <<[item |-> items[k], top |-> IF top = 0 THEN k ELSE top]>>
            \o (IF items[k].kind = "table"
                THEN FlattenTables(items[k].nested, 1, IF top = 0 THEN k ELSE top)
                ELSE <<>>)
            \o FlattenTables(items, k + 1, top)

\* table.find_previous('h3') for the element at position k of the flattened
\* document: the position of the nearest <h3> before it, 0 when there is none
find_previous_h3(flat, k) ==
    LET before == {m \in 1..(k - 1) : flat[m].item.kind = "h3"}
    IN IF before = {} THEN 0 ELSE CHOOSE m \in before : \A x \in before : x <= m

\* suite_header.text.replace("Suite de Testes :", "").strip()
RECURSIVE RemoveLabel(_)
RemoveLabel(words) ==
    IF words = <<>> THEN <<>>
    ELSE (IF Head(words) = SuiteLabel THEN <<>> ELSE <<Head(words)>>)
            \o RemoveLabel(Tail(words))

RECURSIVE ScanRows(_, _, _)
\* status and notes after the loop  for row in table.find_all('tr')
ScanRows(rows, k, found) ==
    IF k > Len(rows) THEN found
    ELSE LET row == rows[k]
             status == IF row.result_label /\ row.second # None
                          /\ row.second[1].bold # None
                       THEN row.second[1].bold[1] ELSE found.status
             notes == IF row.notes_label /\ row.second # None
                      THEN row.second[1].text ELSE found.notes
         IN ScanRows(rows, k + 1, [status |-> status, notes |-> notes])

\* the dictionary appended for the tc table at position k of the flattened document
HtmlRecord(flat, k) ==
    LET table == flat[k].item
        h == find_previous_h3(flat, k)
        found == ScanRows(find_all_tr(table), 1, [status |-> NaoExecutado, notes |-> ""])
    IN [suite |-> IF h = 0 THEN <<SuiteUnknown>> ELSE RemoveLabel(flat[h].item.words),
        name |-> IF table.th # None THEN table.th[1] ELSE NameNotFound,
        Status |-> found.status,
        notes |-> found.notes,
        at |-> k]            \* history: the table the record was made from

\* soup.find_all('table', class_='tc'): positions in the flattened document
find_all_tc(flat) ==
    LET S == {k \in Indices(flat) : flat[k].item.kind = "table" /\ flat[k].item.tc}
    IN [n \in 1..Cardinality(S) |->
           CHOOSE k \in S : Cardinality({x \in S : x < k}) = n - 1]

\* parse_testlink_html on bytes that decode as UTF-8
parse_testlink_html(items) ==
    LET flat == FlattenTables(items, 1, 0)
        all_test_case_tables == find_all_tc(flat)
    IN IF all_test_case_tables = <<>>
       THEN ParseOutcome(FALSE, <<>>, FALSE, TRUE, "utf-8")    \* st.warning, return None
       ELSE ParseOutcome(TRUE,
                [n \in Indices(all_test_case_tables) |->
                    HtmlRecord(flat, all_test_case_tables[n])],
                FALSE, FALSE, "utf-8")

\* data = parse_testlink_html(uploaded_file); a decode error is caught by
\* except Exception: st.error, return None
HtmlParse ==
    /\ variant \in HtmlScripts
    /\ pc = "parse"
    /\ result' = IF utf8 THEN parse_testlink_html(sections)
                 ELSE ParseOutcome(FALSE, <<>>, TRUE, FALSE, "none")
    /\ pc' = "processed"
    /\ UNCHANGED <<variant, genai, lines, tables, sections, utf8, report, raised, i,
                   current_platform, current_story_id, current_story_title,
                   raw_test_data, acted, shown>>

\* if data: the metrics of the page
HtmlDisplay ==
    /\ variant \in HtmlScripts
    /\ pc = "processed"
    /\ shown' = IF result.returned /\ result.test_cases # <<>>
                THEN [error |-> result.error, panels |-> <<>>, dashboard |-> "real",
                      metrics |-> XmlMetrics(result.test_cases)]
                ELSE [error |-> result.error, panels |-> <<>>, dashboard |-> "none"]
    /\ pc' = "done"
    /\ UNCHANGED <<variant, genai, lines, tables, sections, utf8, report, raised, i,
                   current_platform, current_story_id, current_story_title,
                   raw_test_data, acted, result>>

-----------------------------------------------------------------------------
NoResult == [warning |-> FALSE, df_status |-> EmptyFrame, kpis |-> EmptyDict,
             grouped |-> EmptyFrame, df_records |-> EmptyFrame]
NothingShown == [error |-> FALSE, panels |-> <<>>, dashboard |-> "none"]
NoReport == [by |-> "", text |-> ""]

\* the state before the script reads its input
Fresh(v, sentinel) ==
    /\ variant = v
    /\ pc = "parse"
    /\ i = 1
    /\ current_platform = sentinel
    /\ current_story_id = sentinel
    /\ current_story_title = sentinel
    /\ raw_test_data = <<>>
    /\ acted = {}
    /\ result = NoResult
    /\ shown = NothingShown
    /\ report = NoReport
    /\ raised = NotRaised

TextParsers == {"DashQA", "Plataforma", "BuscaModelo"}

\* the scripts; the XML and HTML pages run at module level, the others in main
Scripts == {"DashQA", "Plataforma", "BuscaModelo", "StreamlitApp", "ReadDOC",
            "Dashxml", "HtmlRead", "TestlinkHtml"}

\* the script runs with no file uploaded: uploaded_file is None
InitIdle ==
    /\ variant \in Scripts
    /\ pc = "idle"
    /\ i = 1
    /\ current_platform = NaoIdentificado
    /\ current_story_id = NaoIdentificado
    /\ current_story_title = NaoIdentificado
    /\ raw_test_data = <<>>
    /\ acted = {}
    /\ result = NoResult
    /\ shown = NothingShown
    /\ report = NoReport
    /\ raised = NotRaised
    /\ lines = <<>>
    /\ tables = <<>>
    /\ sections = <<>>
    /\ utf8 = TRUE

\* example_test_data of Dash_KPI_readDOC.main
example_test_data ==
    [p \in Platforms |->
        IF p = "web"
        THEN Put(Put(Put(Put(<<>>, Passou, 3), Falhou, 3), Bloqueado, 8), NaoExecutado, 6)
        ELSE Put(<<>>, NaoExecutado, 20)]

\* the sample dashboard of exibir_dashboard_exemplo / display_sample_dashboard
SampleDashboard == [error |-> FALSE, panels |-> <<>>, dashboard |-> "sample"]

\* main, else branch of  if uploaded_file is not None: st.info and the sample
\* dashboard; the XML and HTML pages show st.info only
NoUpload ==
    /\ pc = "idle"
    /\ shown' = CASE variant \in TextParsers \cup {"StreamlitApp"} -> SampleDashboard
                  [] variant = "ReadDOC" ->
                        [error |-> FALSE, panels |-> <<>>, dashboard |-> "sample",
                         kpis |-> run_dashboard(example_test_data)]
                  [] OTHER -> NothingShown
    /\ pc' = "waiting"
    /\ UNCHANGED <<variant, genai, lines, tables, sections, utf8, report, raised, i,
                   current_platform, current_story_id, current_story_title,
                   raw_test_data, acted, result>>

InitText(v, inputs, sentinel) ==
    /\ Fresh(v, sentinel)
    /\ lines \in inputs
    /\ tables = <<>>
    /\ sections = <<>>
    /\ utf8 = TRUE

InitStreamlit ==
    /\ Fresh("StreamlitApp", NaoIdentificado)
    /\ \/ tables \in SeqsUpTo(Cells, MaxCells) /\ lines = <<OtherRow>>
       \/ tables \in {<<>>, <<Total>>} /\ lines \in SeqsUpTo(FallbackRows, MaxRows)
    /\ sections = <<>>
    /\ utf8 = TRUE

InitDoc ==
    /\ Fresh("ReadDOC", NaoIdentificado)
    /\ sections \in SeqsUpTo(DocItems, MaxSections)
    /\ utf8 \in BOOLEAN
    /\ lines = <<>>
    /\ tables = <<>>

InitHtml ==
    /\ \E v \in HtmlScripts : Fresh(v, NaoIdentificado)
    /\ \/ utf8 = TRUE /\ sections \in HtmlDocs
       \/ utf8 = FALSE /\ sections \in SeqsUpTo(HtmlItems, 1)
    /\ lines = <<>>
    /\ tables = <<>>

InitXml ==
    /\ Fresh("Dashxml", NaoIdentificado)
    /\ sections \in XmlRoots \cup {Malformed}
    /\ utf8 \in BOOLEAN
    /\ lines = <<>>
    /\ tables = <<>>

\* a key that lists every model
AllListed == Listing(ListedModels)

Init ==
    /\ genai = AllListed
    /\ \/ InitStreamlit
       \/ InitDoc
       \/ InitXml
       \/ InitHtml
       \/ InitIdle
       \/ InitText("DashQA", TextInputs, NaoIdentificado)
       \/ InitText("Plataforma", StatusDrivenInputs, NaoIdentificada)
       \/ InitText("BuscaModelo", StatusDrivenInputs, NaoIdentificado)

\* the report functions behind the buttons of the AI section of each page
AiFunctions(v) ==
    CASE v = "DashQA" -> {"gerar_texto_ai"}
      [] v \in {"Plataforma", "BuscaModelo", "StreamlitApp"} -> {"generate_ai_text"}
      [] v = "ReadDOC" -> {"generate_ai_text", "generate_ai_report_platform"}
      [] OTHER -> {}

ResponseText == "response.text"
ErroAoGerar == "Erro ao gerar texto"

\* a report function called while the API does or does not fail: the text it
\* returns, or no return when the exception leaves it. Only
\* generate_ai_report_platform has no  try/except Exception
AiCall(fn, api_fails) ==
    IF ~api_fails THEN [returned |-> TRUE, text |-> ResponseText]
    ELSE IF fn = "generate_ai_report_platform"
         THEN [returned |-> FALSE, text |-> ""]
    ELSE [returned |-> TRUE, text |-> ErroAoGerar]

\* the dashboard on the page has an AI section with its buttons: the sample
\* dashboards of the PDF scripts are drawn without genai_instance, the one of
\* Dash_KPI_readDOC with it; DashQA_busca_modelo needs a model name as well
AiOffered ==
    CASE variant = "BuscaModelo" -> shown.dashboard = "real" /\ shown.ai.offered
      [] variant = "ReadDOC" -> shown.dashboard # "none"
      [] OTHER -> shown.dashboard = "real"

\* a button of the AI section is pressed: the text returned goes to
\* st.text_area / st.markdown; the call sites have no try/except of their own
GenerateReport ==
    /\ pc \in {"done", "waiting"}
    /\ AiOffered
    /\ raised = NotRaised
    /\ report = NoReport
    /\ \E fn \in AiFunctions(variant), api_fails \in BOOLEAN :
          LET call == AiCall(fn, api_fails) IN
          IF call.returned
          THEN /\ report' = [by |-> fn, text |-> call.text]
               /\ UNCHANGED raised
          ELSE /\ raised' = Raise(fn, "Exception")
               /\ UNCHANGED report
    /\ UNCHANGED <<variant, genai, lines, tables, sections, utf8, pc, i, current_platform,
                   current_story_id, current_story_title, raw_test_data, acted,
                   result, shown>>

Next ==
    \/ QAStep \/ QAAggregate \/ QADisplay
    \/ PlatStep \/ PlatAggregate \/ PlatDisplay
    \/ BuscaStep \/ BuscaAggregate \/ BuscaDisplay
    \/ StreamlitProcess
    \/ DocExtract \/ DocDisplay
    \/ XmlParse \/ XmlDisplay
    \/ HtmlParse \/ HtmlDisplay
    \/ NoUpload
    \/ GenerateReport

Spec == Init /\ [][Next]_vars

-----------------------------------------------------------------------------
(* DashQA.py: exibir_dashboard, the CSV export of the grouped counts        *)

TitleComma == "a,b"
TitleQuote == "say \"x\""

\* str(value): the characters of the texts the export writes
chars(text) ==
    CASE text = "" -> <<>>
      [] text = "Web" -> <<"W","e","b">>
      [] text = NaoIdentificado -> <<"N","a","o"," ","I","d","e","n","t","i","f","i","c","a","d","o">>
      [] text = "ABC-100" -> <<"A","B","C","-","1","0","0">>
      [] text = "ABC-200" -> <<"A","B","C","-","2","0","0">>
      [] text = "ABC-300" -> <<"A","B","C","-","3","0","0">>
      [] text = "ABC-400" -> <<"A","B","C","-","4","0","0">>
      [] text = "Title X" -> <<"T","i","t","l","e"," ","X">>
      [] text = TitleComma -> <<"a",",","b">>
      [] text = TitleQuote -> <<"s","a","y"," ","\"","x","\"">>
      [] text = "platform" -> <<"p","l","a","t","f","o","r","m">>
      [] text = "story_id" -> <<"s","t","o","r","y","_","i","d">>
      [] text = "story_title" -> <<"s","t","o","r","y","_","t","i","t","l","e">>
      [] text = "status" -> <<"s","t","a","t","u","s">>
      [] text = "Total" -> <<"T","o","t","a","l">>

Digit(d) == CASE d = 0 -> "0" [] d = 1 -> "1" [] d = 2 -> "2" [] d = 3 -> "3"
              [] d = 4 -> "4" [] d = 5 -> "5" [] d = 6 -> "6" [] d = 7 -> "7"
              [] d = 8 -> "8" [] d = 9 -> "9"

RECURSIVE Digits(_)
\* str(n) of a count
Digits(n) == IF n < 10 THEN <<Digit(n)>> ELSE Digits(n \div 10) \o <<Digit(n % 10)>>

\* the characters that make the csv writer quote a field (QUOTE_MINIMAL): the
\* delimiter, the quote character and the line terminator
Delimiter == ","
QuoteChar == "\""
LineTerminator == "\n"
NeedsQuote(field) ==
    \E k \in Indices(field) : field[k] \in {Delimiter, QuoteChar, LineTerminator}

RECURSIVE DoubleQuotes(_)
\* doublequote=True: every quote character of the field is written twice
DoubleQuotes(field) ==
    IF field = <<>> THEN <<>>
    ELSE (IF Head(field) = QuoteChar THEN <<QuoteChar, QuoteChar>> ELSE <<Head(field)>>)
            \o DoubleQuotes(Tail(field))

\* mutant of CsvField: no field is quoted
CsvFieldRaw(field) == field

\* one field as written
CsvField(field) ==
    IF NeedsQuote(field) THEN <<QuoteChar>> \o DoubleQuotes(field) \o <<QuoteChar>>
    ELSE field

RECURSIVE JoinFields(_, _)
JoinFields(cells, k) ==
    IF k > Len(cells) THEN <<>>
    ELSE (IF k > 1 THEN <<Delimiter>> ELSE <<>>) \o CsvField(cells[k])
            \o JoinFields(cells, k + 1)

\* one row as written, with its line terminator
CsvRow(cells) == JoinFields(cells, 1) \o <<LineTerminator>>

CsvHeader ==
    <<chars("platform"), chars("story_id"), chars("story_title"), chars("status"),
      chars("Total")>>

\* the cells of the row of one group: its key and its Total
GroupCells(grouped, key) ==
    <<chars(key[1]), chars(key[2]), chars(key[3]), key[4], Digits(grouped[key])>>

RECURSIVE CsvRows(_, _)
\* the rows of the groups in keys, one after the other
CsvRows(grouped, keys) ==
    IF keys = {} THEN <<>>
    ELSE LET key == CHOOSE k \in keys : TRUE
         IN CsvRow(GroupCells(grouped, key)) \o CsvRows(grouped, keys \ {key})

\* df_stories.to_csv(index=False): the header and one row per group
to_csv(grouped) == CsvRow(CsvHeader) \o CsvRows(grouped, DOMAIN grouped)

\* st.download_button(data=csv): the export under the dashboard is downloaded
QAExport ==
    /\ variant = "DashQA"
    /\ pc = "done"
    /\ shown.dashboard = "real"
    /\ shown' = [error |-> shown.error, panels |-> shown.panels,
                 dashboard |-> shown.dashboard, csv |-> to_csv(result.grouped)]
    /\ pc' = "exported"
    /\ UNCHANGED <<variant, genai, lines, tables, sections, utf8, report, raised, i,
                   current_platform, current_story_id, current_story_title,
                   raw_test_data, acted, result>>

\* the lines of the documents whose export is followed: story titles that are
\* empty, plain, with a comma and with quote characters.  A title is part of
\* one line of the extracted text and holds no line break
CsvLines ==
    { PlatformLine(Web), StoryX, StoryLine("ABC-200", ""),
      StoryLine("ABC-300", TitleComma), StoryLine("ABC-400", TitleQuote),
      StoryLine("ABC-100", TitleComma),       \* the story of StoryX under another title
      CaseX, ResPassou }

InitCsv ==
    /\ genai = AllListed
    /\ InitText("DashQA", SeqsUpTo(CsvLines, MaxCsvLines), NaoIdentificado)

NextCsv == QAStep \/ QAAggregate \/ QADisplay \/ QAExport

SpecCsv == InitCsv /\ [][NextCsv]_vars

-----------------------------------------------------------------------------
(* DashQA_busca_modelo.py under every key: the page with and without an     *)
(* upload, the model lookup of display_dashboard and the summary button     *)

FindLines == {BlankLine, StoryX, ResPassou, ResLine(Falhou)}

InitFind ==
    /\ genai \in GenaiInstances
    /\ \/ InitText("BuscaModelo", SeqsUpTo(FindLines, MaxFindLines), NaoIdentificado)
       \/ InitIdle /\ variant = "BuscaModelo"

NextFind == BuscaStep \/ BuscaAggregate \/ BuscaDisplay \/ NoUpload \/ GenerateReport

SpecFind == InitFind /\ [][NextFind]_vars

-----------------------------------------------------------------------------
(* Vocabulary of the properties *)

Sentinel == IF variant = "Plataforma" THEN NaoIdentificada ELSE NaoIdentificado

\* the recognizer that consumes line k: the first of the script's chain that matches
ConsumedBy(k) ==
    LET line == lines[k] IN
    CASE variant = "DashQA" ->
            IF line.plat # None THEN "platform"
            ELSE IF line.story # None THEN "story"
            ELSE IF line.tc # None THEN "test_case"
            ELSE "none"
      [] variant = "Plataforma" ->
            IF line.plat # None THEN "platform"
            ELSE IF line.story # None THEN "story"
            ELSE IF CaptureWord(IF line.res = None THEN <<>> ELSE line.res[1]) # <<>>
                    \/ CaptureWord(IF line.est = None THEN <<>> ELSE line.est[1]) # <<>>
                 THEN "status"
            ELSE "none"
      [] OTHER ->
            IF line.story # None THEN "story"
            ELSE IF CaptureWord(IF line.res = None THEN <<>> ELSE line.res[1]) # <<>>
                    \/ CaptureWord(IF line.est = None THEN <<>> ELSE line.est[1]) # <<>>
                 THEN "status"
            ELSE "none"

\* the lines before line k consumed as a header of the kind
HeadersBefore(kind, k) == {m \in 1..(k - 1) : ConsumedBy(m) = kind}
Latest(S) == CHOOSE m \in S : \A x \in S : x <= m

\* the recognizer whose match emits a record
Trigger == IF variant = "DashQA" THEN "test_case" ELSE "status"

-----------------------------------------------------------------------------
(* C1: every record emitted by DashQA.processar_dados_extraidos and         *)
(* Dash_Plataforma.process_extracted_data carries the platform and the      *)
(* story of the latest platform header and the latest story header that     *)
(* precede the line that triggered it; an earlier header never wins.        *)
C1_RecordsCarryLatestHeaders ==
    variant \in {"DashQA", "Plataforma"} =>
        \A n \in 1..Len(raw_test_data) :
            LET rec == raw_test_data[n]
                P == HeadersBefore("platform", rec.line)
                S == HeadersBefore("story", rec.line)
            IN /\ P # {} => rec.platform = lines[Latest(P)].plat[1]
               /\ S # {} => rec.story_id = lines[Latest(S)].story[1].id
               /\ (S # {} /\ variant = "DashQA") =>
                      rec.story_title = lines[Latest(S)].story[1].title

\* a record that follows two story headers with different ids and titles
C1_Witness ==
    /\ variant = "DashQA"
    /\ \E n \in 1..Len(raw_test_data) :
         \E a, b \in HeadersBefore("story", raw_test_data[n].line) :
            /\ a < b
            /\ lines[a].story[1].id # lines[b].story[1].id
            /\ raw_test_data[n].story_id = lines[b].story[1].id

-----------------------------------------------------------------------------
(* C2: in every text parser a test case or status occurrence met before     *)
(* any story header and any platform header is emitted as a record with     *)
(* the 'not identified' sentinel in its story and platform fields; it is    *)
(* not dropped.                                                             *)
C2_OccurrenceBeforeHeadersIsEmitted ==
    variant \in TextParsers =>
        \A k \in 1..(i - 1) :
            (/\ k <= Len(lines)
             /\ ConsumedBy(k) = Trigger
             /\ HeadersBefore("story", k) = {}
             /\ HeadersBefore("platform", k) = {})
            => \E n \in 1..Len(raw_test_data) :
                  /\ raw_test_data[n].line = k
                  /\ raw_test_data[n].story_id = Sentinel
                  /\ variant # "BuscaModelo" => raw_test_data[n].platform = Sentinel

-----------------------------------------------------------------------------
\* the status names of the counts the script produced
StatusNames ==
    CASE variant \in TextParsers -> DOMAIN result.df_status
      [] variant = "StreamlitApp" ->
            {result.df_status[n].Status : n \in 1..Len(result.df_status)}
      [] variant = "ReadDOC" ->
            IF pc \in {"parse", "idle", "waiting"} THEN {}
            ELSE UNION {DOMAIN result.test_data[p] : p \in DOMAIN result.test_data}
      [] OTHER -> {}

(* C3: in every variant that produces per-status counts, 'Falhou' and       *)
(* 'Falhado' are one status value: the status counts of one document never  *)
(* hold 'Falhou' and 'Falhado' as two entries.                              *)
C3_FalhouAndFalhadoAreOneStatus ==
    ~(Falhou \in StatusNames /\ Falhado \in StatusNames)

-----------------------------------------------------------------------------
\* line m carries a status the status recognizers match
HasStatus(m) == regex_status_res(lines[m]) # None \/ regex_status_est(lines[m]) # None

\* the first test-case header after line k, Len(lines) + 1 when there is none
NextCase(k) ==
    LET later == {m \in (k + 1)..Len(lines) : ConsumedBy(m) = "test_case"}
    IN IF later = {} THEN Len(lines) + 1
       ELSE CHOOSE m \in later : \A x \in later : m <= x

(* C4: a test case whose header is not followed by any status line before   *)
(* the next test-case header (or the end of the input) is emitted with      *)
(* status 'Não Executado'; its status is never taken from a status line at  *)
(* or after the next test-case header.                                      *)
C4_NoStatusBeforeNextCaseIsNaoExecutado ==
    variant = "DashQA" =>
        \A n \in 1..Len(raw_test_data) :
            LET k == raw_test_data[n].line IN
            (\A m \in k..(NextCase(k) - 1) : ~HasStatus(m))
                => raw_test_data[n].status = NaoExecutado

-----------------------------------------------------------------------------
\* the statuses line m offers
StatusesAt(m) ==
    {r[1] : r \in {regex_status_res(lines[m]), regex_status_est(lines[m])} \ {None}}

HasComment(m) == regex_comments(lines[m]) # None

\* the window of the test case at line k
Window(k) == k..ScanEnd(k, Len(lines))
\* the least line of W, 0 when W is empty
First(W) == IF W = {} THEN 0 ELSE CHOOSE m \in W : \A x \in W : m <= x
FirstStatus(k) == First({m \in Window(k) : HasStatus(m)})
FirstComment(k) == First({m \in Window(k) : HasComment(m)})

(* C5: in DashQA.processar_dados_extraidos the status (and the comment)     *)
(* of a test case is the FIRST status (comment) match of the lookahead      *)
(* window; later matches in the window do not replace it.                   *)
C5_FirstMatchInWindowWins ==
    variant = "DashQA" =>
        \A n \in 1..Len(raw_test_data) :
            LET k == raw_test_data[n].line IN
            /\ FirstStatus(k) # 0 =>
                  raw_test_data[n].status \in StatusesAt(FirstStatus(k))
            /\ FirstComment(k) # 0 =>
                  raw_test_data[n].comments = regex_comments(lines[FirstComment(k)])[1]

-----------------------------------------------------------------------------
\* the recognizers whose match on line k the script used
ActedOn(k) == {a[2] : a \in {x \in acted : x[1] = k}}

(* C6: in the text parsers every input line is acted on by at most one      *)
(* recognizer, the first of platform header, story header, test-case        *)
(* header, status/comment that matches; a line consumed as a platform,      *)
(* story or test-case header is not also read as a status or comment line.  *)
C6_OneRecognizerPerLine ==
    variant \in {"DashQA", "Plataforma"} =>
        \A k \in 1..Len(lines) :
            /\ Cardinality(ActedOn(k)) <= 1
            /\ (k < i /\ ConsumedBy(k) # "none") => ActedOn(k) = {ConsumedBy(k)}

-----------------------------------------------------------------------------
\* the text parser has returned its result for a non-empty record list
Aggregated == variant \in TextParsers /\ pc \in {"processed", "done"} /\ raw_test_data # <<>>

\* the number of records the parser emitted whose status is in the set
Emitted(statuses) ==
    Cardinality({n \in 1..Len(raw_test_data) : raw_test_data[n].status \in statuses})

\* the statuses of the records that hold 'passou', letter case ignored
HoldingPassou ==
    {st \in {raw_test_data[n].status : n \in 1..Len(raw_test_data)} :
        IsSubstring(Lower(Passou), Lower(st))}

\* the percentage q is part / whole * 100
IsPercentOf(q, part, whole) == ~q.raised /\ q.num * whole = part * 100 * q.den

\* all of C7 but the count of passed cases
KpisButPassed ==
    LET k == result.kpis IN
    /\ k.total_cases = Len(raw_test_data)
    /\ k.executed_cases = k.total_cases - Emitted({NaoExecutado})
    /\ k.total_cases > 0 => IsPercentOf(k.percent_execution, k.executed_cases, k.total_cases)
    /\ k.executed_cases > 0 => IsPercentOf(k.percent_success, k.passed_cases, k.executed_cases)

(* C7 as stated: for the records of a text parser, total = number of        *)
(* records, passed = number of records with status Passou, executed =       *)
(* total - number of records with status 'Não Executado', execution% =      *)
(* executed/total*100 and success% = passed/executed*100.                   *)
C7_KpisCountRecordsByStatus ==
    Aggregated => /\ KpisButPassed
                  /\ result.kpis.passed_cases = Emitted({Passou})

(* C7 amended: as C7, but passed = number of records whose status holds     *)
(* 'passou' as a substring, letter case ignored ('passou', 'PASSOU' and     *)
(* 'Repassou' count as passed, not only 'Passou').                          *)
C7_KpisCountPassedBySubstring ==
    Aggregated => /\ KpisButPassed
                  /\ result.kpis.passed_cases = Emitted(HoldingPassou)

\* KPIs computed over a record whose status is 'passou'
C7_Witness ==
    /\ Aggregated
    /\ \E n \in 1..Len(raw_test_data) : raw_test_data[n].status = passouLower
    /\ result.kpis.passed_cases >= 1

-----------------------------------------------------------------------------
\* every KPI dictionary of the state: those returned and those displayed
KpiSets ==
    (IF pc \in {"processed", "done"} /\ variant \in TextParsers \cup {"StreamlitApp"}
        /\ DOMAIN result.kpis # {}
     THEN {result.kpis} ELSE {})
    \cup (IF pc = "done" /\ variant \in TextParsers
          THEN {shown.panels[x].kpis : x \in DOMAIN shown.panels} ELSE {})
    \cup (IF pc = "done" /\ variant = "ReadDOC" /\ "kpis" \in DOMAIN shown
          THEN {shown.kpis} ELSE {})

PercentFields(k) == DOMAIN k \cap {"percent_execution", "percent_success",
                                   "taxa_defeito", "taxa_bloqueio"}

(* C8: every KPI computation yields execution% = 0 when total = 0 and       *)
(* success% = 0 when executed = 0 and never divides by zero: the global     *)
(* KPIs, the per-story KPIs and the per-platform KPIs alike.                *)
C8_NoDivisionByZero ==
    \A k \in KpiSets :
        /\ \A f \in PercentFields(k) : ~k[f].raised
        /\ ("percent_execution" \in DOMAIN k /\ k.total_cases = 0)
               => IsNumber(k.percent_execution, 0)
        /\ k.executed_cases = 0 => IsNumber(k.percent_success, 0)

\* KPIs computed over counts whose total is 0 (so executed is 0 too)
C8_Witness ==
    \E k \in KpiSets : k.total_cases = 0 /\ k.executed_cases = 0

-----------------------------------------------------------------------------
(* C9: the input  story header ABC-100 'Title X', test-case header ABC-101  *)
(* 'Check X', status line Passou  yields exactly one record {story_id       *)
(* ABC-100, story_title 'Title X', test_case_id ABC-101, status Passou}     *)
(* and kpis total=1, passed=1, executed=1, execution%=100, success%=100.    *)
C9_ScenarioOnePassedCase ==
    (variant = "DashQA" /\ lines = <<StoryX, CaseX, ResPassou>>
        /\ pc \in {"processed", "done"})
    => /\ Len(result.df_records) = 1
       /\ result.df_records[1].story_id = "ABC-100"
       /\ result.df_records[1].story_title = "Title X"
       /\ result.df_records[1].test_case_id = "ABC-101"
       /\ result.df_records[1].status = Passou
       /\ result.kpis.total_cases = 1
       /\ result.kpis.passed_cases = 1
       /\ result.kpis.executed_cases = 1
       /\ IsNumber(result.kpis.percent_execution, 100)
       /\ IsNumber(result.kpis.percent_success, 100)

C9_Witness ==
    variant = "DashQA" /\ lines = <<StoryX, CaseX, ResPassou>> /\ pc = "processed"

-----------------------------------------------------------------------------
\* the input holds a story header, then its only test-case header, and no status
OneCaseNoStatus ==
    /\ Cardinality({k \in 1..Len(lines) : lines[k].tc # None}) = 1
    /\ \A k \in 1..Len(lines) :
          /\ lines[k].plat = None
          /\ lines[k].res = None /\ lines[k].est = None
          /\ lines[k].tc # None => \E m \in 1..(k - 1) : lines[m].story # None

(* C10: an input with a story header and a single test-case header but no   *)
(* status line yields one record whose status is 'Não Executado', and that  *)
(* record is excluded from the executed cases (executed = 0, total = 1).    *)
C10_OneCaseWithoutStatus ==
    (variant \in {"DashQA", "Plataforma"} /\ OneCaseNoStatus
        /\ pc \in {"processed", "done"})
    => /\ Len(result.df_records) = 1
       /\ result.df_records[1].status = NaoExecutado
       /\ result.kpis.total_cases = 1
       /\ result.kpis.executed_cases = 0

-----------------------------------------------------------------------------
\* the records the .doc parser counted, before the back-fill
DocParsed == CountSections(sections, 1, NoPlatform, [p \in Platforms |-> <<>>])

\* the script ended and its parser extracted no record from the document
ZeroRecords ==
    /\ pc = "done"
    /\ CASE variant \in TextParsers -> raw_test_data = <<>>
         [] variant = "StreamlitApp" -> result.df_status = <<>>
         [] variant = "ReadDOC" -> \A p \in Platforms : SumValues(DocParsed[p]) = 0
         [] OTHER -> raised = NotRaised /\ result.test_cases = <<>>

\* the function returned empty tables and empty kpis
EmptyReturned ==
    CASE variant \in TextParsers \cup {"StreamlitApp"} ->
            result.df_status = <<>> /\ DOMAIN result.kpis = {}
      [] variant = "ReadDOC" ->
            \A p \in DOMAIN result.test_data : DOMAIN result.test_data[p] = {}
      [] OTHER -> result.test_cases = <<>>

\* the function or its caller displayed a warning or an error message
MessageGiven ==
    CASE variant \in TextParsers \cup {"StreamlitApp"} -> result.warning \/ shown.error
      [] variant = "ReadDOC" -> result.error \/ shown.error
      [] OTHER -> result.warning \/ result.error

(* C11: when zero records are extracted from a document, the                *)
(* parse-and-aggregate function returns an explicitly empty result (empty   *)
(* tables, empty kpis) together with a warning, and neither it nor its      *)
(* caller raises an exception.                                              *)
C11_ZeroRecordsGiveEmptyResultAndWarning ==
    ZeroRecords => raised = NotRaised /\ EmptyReturned /\ MessageGiven

-----------------------------------------------------------------------------
\* the scripts that read the text of a PDF
PdfScripts == TextParsers \cup {"StreamlitApp"}

\* a file was uploaded in this run
Uploaded == pc \notin {"idle", "waiting"}

(* C12 as stated: when an uploaded document yields zero records, main       *)
(* shows the example/sample dashboard instead of the real one.              *)
C12_ZeroRecordsShowSample ==
    (ZeroRecords /\ variant \in PdfScripts \cup {"ReadDOC"})
        => shown.dashboard = "sample"

(* C12 amended: the sample dashboard is shown only when no file is          *)
(* uploaded; for an uploaded document with zero records the PDF scripts     *)
(* show an error message and no dashboard, neither sample nor real.         *)
C12_SampleOnlyWithoutUpload ==
    /\ shown.dashboard = "sample" => ~Uploaded
    /\ (variant \in PdfScripts /\ ZeroRecords)
          => shown.error /\ shown.dashboard = "none"

\* an uploaded PDF with zero records has been handled by main
C12_Witness ==
    ZeroRecords /\ variant \in PdfScripts /\ Uploaded /\ shown.error

-----------------------------------------------------------------------------
\* the parse entry points of the XML, HTML and .doc scripts
ParseEntryPoints ==
    {"parse_testlink_xml", "parse_testlink_html", "extract_data_from_html_doc"}

(* C13: no parsing or aggregation error escapes a parse entry point: for    *)
(* any input bytes parse_testlink_xml, parse_testlink_html and              *)
(* extract_data_from_html_doc end by returning a result, with a displayed   *)
(* message when the result is None, never by letting an exception           *)
(* propagate to the caller.                                                 *)
C13_NoErrorEscapesParse ==
    /\ raised.in \notin ParseEntryPoints
    /\ (variant \in HtmlScripts \cup {"Dashxml"} /\ pc \in {"processed", "done"}
        /\ ~result.returned) => (result.error \/ result.warning)
    /\ (variant = "ReadDOC" /\ pc \in {"processed", "done"}
        /\ result.test_data = NoData) => result.error

----------------------------------------------------------------------------
\* Decoding of the uploaded bytes

MarkupScripts == HtmlScripts \cup {"Dashxml", "ReadDOC"}

\* the upload has been handed to the parser and its bytes are not UTF-8
NotUtf8Parsed ==
    variant \in MarkupScripts /\ pc \in {"processed", "done"} /\ ~utf8

\* C14: every HTML/DOC/XML parser that is given bytes that are not UTF-8
\* falls back to Latin-1 and goes on parsing: nothing is raised, and no
\* failure is reported without the Latin-1 decoding having been tried
C14_Latin1FallbackEverywhere ==
    NotUtf8Parsed => raised = NotRaised /\ result.codec = "latin-1"

----------------------------------------------------------------------------
\* Failure of the AI text generation

\* the API call of the report function just called has failed
AiFailed == raised.in \in AiFunctions(variant) \/ report.text = ErroAoGerar

\* C15: a failure of the AI text generation never leaves the report action:
\* in every script it ends as an inline error text in the report area, no
\* exception propagates, and the parsed records and KPIs stay as they were
C15_AiFailureIsInlineText ==
    [][GenerateReport =>
          /\ raised' = NotRaised
          /\ report' # NoReport
          /\ <<raw_test_data, result, shown>>' = <<raw_test_data, result, shown>>]_vars

----------------------------------------------------------------------------
\* Status tokens outside the known vocabulary

\* t is none of Passou, Falhou/Falhado, Bloqueado, Nao Executado
UnknownToken(t) == parse_status(TRUE, t) = None

RECURSIVE PlatformBefore(_, _)
\* the platform in force when item k of the .doc document is read
PlatformBefore(doc, k) ==
    IF k = 1 THEN NoPlatform
    ELSE IF doc[k - 1].kind = "heading"
         THEN PlatformOfHeading(doc[k - 1].text, PlatformBefore(doc, k - 1))
    ELSE PlatformBefore(doc, k - 1)

\* the result tables of platform p whose status text is a string
StatusTables(p) ==
    {k \in Indices(sections) :
        /\ sections[k].kind = "table" /\ sections[k].has_result /\ sections[k].is_str
        /\ PlatformBefore(sections, k) = p}

\* the text parser has aggregated its records
TextAggregated == variant \in TextParsers /\ pc \in {"processed", "done"}

\* the .doc parser has returned its counts
DocCounted ==
    variant = "ReadDOC" /\ pc \in {"processed", "done"} /\ result.test_data # NoData

\* C16: a status token outside the known vocabulary is kept verbatim as a
\* category of its own in the status counts, with the number of cases that
\* carry it, and is counted neither as passed nor as Nao Executado; in the
\* text parsers and in the .doc parser
C16_UnknownStatusIsOwnCategory ==
    /\ TextAggregated =>
          /\ \A n \in Indices(raw_test_data) :
                LET t == raw_test_data[n].status IN
                UnknownToken(t) =>
                    /\ t \in DOMAIN result.df_status
                    /\ result.df_status[t] =
                          Cardinality({m \in Indices(raw_test_data) :
                                          raw_test_data[m].status = t})
          /\ raw_test_data # <<>> =>
                /\ result.kpis.passed_cases =
                      Cardinality({m \in Indices(raw_test_data) :
                                      parse_status(TRUE, raw_test_data[m].status) = Passou})
                /\ result.kpis.total_cases - result.kpis.executed_cases =
                      Cardinality({m \in Indices(raw_test_data) :
                                      parse_status(TRUE, raw_test_data[m].status) = NaoExecutado})
    /\ DocCounted =>
          \A p \in Platforms : \A k \in StatusTables(p) :
              LET t == sections[k].text IN
              UnknownToken(t) =>
                  /\ t \in DOMAIN result.test_data[p]
                  /\ result.test_data[p][t] =
                        Cardinality({m \in StatusTables(p) : sections[m].text = t})
                  /\ Get(result.test_data[p], NaoExecutado)
                        <= total_tcs_per_platform
                             - Cardinality({m \in StatusTables(p) :
                                   parse_status(TRUE, sections[m].text) # NaoExecutado})

----------------------------------------------------------------------------
\* The records of an XML document

RECURSIVE ElementsOf(_, _)
\* the elements of the trees from the k-th on, each before its children
ElementsOf(forest, k) ==
    IF k > Len(forest) THEN <<>>
    ELSE <<forest[k]>> \o ElementsOf(forest[k].children, 1) \o ElementsOf(forest, k + 1)

RECURSIVE OnlyTestcases(_, _)
OnlyTestcases(elements, k) ==
    IF k > Len(elements) THEN <<>>
    ELSE (IF elements[k].tag = "testcase" THEN <<elements[k]>> ELSE <<>>)
            \o OnlyTestcases(elements, k + 1)

\* every <testcase> element of the document, the root included, in document order
TestcaseElements(root) == OnlyTestcases(ElementsOf(<<root>>, 1), 1)

\* the status the code character of a testcase stands for
MappedStatus(testcase) ==
    IF testcase.execution = None \/ testcase.execution[1].status = None
    THEN NaoExecutado
    ELSE LET c == testcase.execution[1].status[1] IN
         IF c = "p" THEN Passou
         ELSE IF c = "f" THEN Falhou
         ELSE IF c = "b" THEN Bloqueado
         ELSE IF c = "n" THEN NaoExecutado
         ELSE Desconhecido

\* parse_testlink_xml has returned its list
XmlReturned ==
    /\ variant = "Dashxml" /\ pc \in {"processed", "done"}
    /\ raised = NotRaised /\ result.returned

\* C17: parse_testlink_xml emits exactly one record per <testcase> element, in
\* document order; p, f, b, n map to Passou, Falhou, Bloqueado, Nao Executado,
\* a testcase without execution/status node is Nao Executado and any other
\* status text is Desconhecido
C17_OneRecordPerTestcase ==
    XmlReturned =>
        LET expected == TestcaseElements(sections) IN
        /\ Len(result.test_cases) = Len(expected)
        /\ \A n \in Indices(expected) :
              /\ result.test_cases[n].name = expected[n].name
              /\ result.test_cases[n].Status = MappedStatus(expected[n])

----------------------------------------------------------------------------
\* The records of an HTML report

\* the elements of the report in document order
Flat == FlattenTables(sections, 1, 0)

\* the positions of the test-case tables (class 'tc')
TcTables == {k \in Indices(Flat) : Flat[k].item.kind = "table" /\ Flat[k].item.tc}

\* the <h3> headings before position k
HeadingsBefore(k) == {m \in 1..(k - 1) : Flat[m].item.kind = "h3"}

\* the suite named by a heading: its text apart from the label 'Suite de Testes :'
HeadingSuite(words) ==
    [n \in 1..Cardinality({m \in Indices(words) : words[m] # SuiteLabel}) |->
        words[CHOOSE m \in Indices(words) :
                 /\ words[m] # SuiteLabel
                 /\ Cardinality({x \in 1..m : words[x] # SuiteLabel}) = n]]

\* the rows 'Resultado da Execução:' of the table itself, tables nested in it apart
OwnResultRows(table) == {n \in Indices(table.rows) : table.rows[n].result_label}

\* the status texts those rows give
OwnResults(table) ==
    {table.rows[n].second[1].bold[1] : n \in
        {m \in OwnResultRows(table) :
            table.rows[m].second # None /\ table.rows[m].second[1].bold # None}}

\* parse_testlink_html has returned its list
HtmlReturned ==
    variant \in HtmlScripts /\ pc \in {"processed", "done"} /\ result.returned

\* C18: parse_testlink_html emits exactly one record per test-case table, in
\* document order; the suite of a record is that of the nearest <h3> before
\* its table, Suite Desconhecida when there is none; its status comes only
\* from a row 'Resultado da Execução:' of that same table, never from a row of
\* another table, and is Nao Executado when the table has no such row
C18_OneRecordPerTcTable ==
    HtmlReturned =>
        /\ Len(result.test_cases) = Cardinality(TcTables)
        /\ \A n \in Indices(result.test_cases) :
              LET rec == result.test_cases[n]
                  table == Flat[rec.at].item
              IN /\ rec.at \in TcTables
                 /\ Cardinality({k \in TcTables : k < rec.at}) = n - 1
                 /\ IF HeadingsBefore(rec.at) = {}
                    THEN rec.suite = <<SuiteUnknown>>
                    ELSE \E h \in HeadingsBefore(rec.at) :
                            /\ \A m \in HeadingsBefore(rec.at) : m <= h
                            /\ rec.suite = HeadingSuite(Flat[h].item.words)
                 /\ rec.Status \in OwnResults(table) \cup {NaoExecutado}
                 /\ OwnResultRows(table) = {} => rec.Status = NaoExecutado

----------------------------------------------------------------------------
\* Persistence of the platform and story cursors

CursorScripts == {"DashQA", "Plataforma"}

\* the loop of a cursor script is about to read line i
ReadingLine == variant \in CursorScripts /\ pc = "parse" /\ i <= Len(lines)

PlatformHeader(line) == line.plat # None
\* a story header; a line that is also a platform header is read as that
StoryHeader(line) == line.plat = None /\ line.story # None

\* the records emitted by the step
NewRecords == SubSeq(raw_test_data', Len(raw_test_data) + 1, Len(raw_test_data'))

\* C19: a platform header line changes only the platform cursor (story id and
\* title unchanged, no record emitted), a story header line changes only the
\* story id and title (platform unchanged, no record emitted), and a record
\* is attributed to the story and the platform the cursors hold, so a test
\* case after a new platform header and before a new story header goes to
\* the story seen before
C19_CursorsPersist ==
    [][ReadingLine =>
          LET line == lines[i] IN
          /\ PlatformHeader(line) =>
                /\ current_platform' = line.plat[1]
                /\ current_story_id' = current_story_id
                /\ current_story_title' = current_story_title
                /\ raw_test_data' = raw_test_data
          /\ StoryHeader(line) =>
                /\ current_story_id' = line.story[1].id
                /\ variant = "DashQA" => current_story_title' = line.story[1].title
                /\ current_platform' = current_platform
                /\ raw_test_data' = raw_test_data
          /\ ~PlatformHeader(line) /\ ~StoryHeader(line) =>
                /\ current_platform' = current_platform
                /\ current_story_id' = current_story_id
                /\ current_story_title' = current_story_title
                /\ raw_test_data = SubSeq(raw_test_data', 1, Len(raw_test_data))
                /\ \A n \in Indices(NewRecords) :
                      /\ NewRecords[n].platform = current_platform
                      /\ NewRecords[n].story_id = current_story_id
                      /\ variant = "DashQA" =>
                            NewRecords[n].story_title = current_story_title
    ]_vars

\* a record of a test case that follows a new platform header with no story
\* header in between, attributed to the story seen before that platform header
C19_Witness ==
    /\ variant \in CursorScripts
    /\ \E n \in Indices(raw_test_data) :
         \E j, k \in Indices(lines) :
            /\ j < k /\ k < raw_test_data[n].line
            /\ StoryHeader(lines[j]) /\ PlatformHeader(lines[k])
            /\ \A m \in (j + 1)..raw_test_data[n].line : ~StoryHeader(lines[m])
            /\ raw_test_data[n].story_id = lines[j].story[1].id
            /\ raw_test_data[n].platform = lines[k].plat[1]

----------------------------------------------------------------------------
\* Round trip of the CSV export

\* a CSV parser (RFC 4180).  A field that starts at character k of the text
\* is quoted when it opens with the quote character; it then ends at the
\* first quote character that is not the first of a doubled pair
QuotesIn(text, a, b) == Cardinality({q \in a..b : text[q] = QuoteChar})

IsQuoted(text, k) == k <= Len(text) /\ text[k] = QuoteChar

ClosingQuote(text, k) ==
    LET closing == {m \in (k + 1)..Len(text) :
                       /\ text[m] = QuoteChar
                       /\ QuotesIn(text, k + 1, m) % 2 = 1
                       /\ (m = Len(text) \/ text[m + 1] # QuoteChar)}
    IN IF closing = {} THEN Len(text) + 1
       ELSE CHOOSE m \in closing : \A x \in closing : m <= x

\* the position of the delimiter or line terminator that ends the field
FieldStop(text, k) ==
    IF IsQuoted(text, k) THEN ClosingQuote(text, k) + 1
    ELSE LET stops == {m \in k..Len(text) : text[m] \in {Delimiter, LineTerminator}}
         IN IF stops = {} THEN Len(text) + 1
            ELSE CHOOSE m \in stops : \A x \in stops : m <= x

\* the content of a quoted field with every doubled quote read as one
Undouble(content) ==
    LET kept == {q \in Indices(content) :
                    content[q] # QuoteChar \/ QuotesIn(content, 1, q) % 2 = 1}
    IN [n \in 1..Cardinality(kept) |->
           content[CHOOSE q \in kept : Cardinality({x \in kept : x <= q}) = n]]

FieldValue(text, k) ==
    IF IsQuoted(text, k)
    THEN Undouble(SubSeq(text, k + 1, ClosingQuote(text, k) - 1))
    ELSE SubSeq(text, k, FieldStop(text, k) - 1)

RECURSIVE ReadCsv(_, _, _, _)
\* the rows of the text from the field at character k on; row holds the
\* fields read of the current row, rows the rows read so far
ReadCsv(text, k, row, rows) ==
    IF k > Len(text) THEN (IF row = <<>> THEN rows ELSE Append(rows, row))
    ELSE LET stop == FieldStop(text, k)
             fields == Append(row, FieldValue(text, k))
         IN IF stop <= Len(text) /\ text[stop] = Delimiter
            THEN ReadCsv(text, stop + 1, fields, rows)
            ELSE ReadCsv(text, stop + 1, <<>>, Append(rows, fields))

ParseCsv(text) == ReadCsv(text, 1, <<>>, <<>>)

DigitValue(c) == CHOOSE d \in 0..9 : Digit(d) = c

RECURSIVE ParseInt(_)
ParseInt(digits) ==
    IF Len(digits) = 1 THEN DigitValue(digits[1])
    ELSE 10 * ParseInt(SubSeq(digits, 1, Len(digits) - 1)) + DigitValue(digits[Len(digits)])

\* the (platform, story_id, story_title, status, count) tuples of the rows read back
PairsRead(rows) ==
    {<<rows[n][1], rows[n][2], rows[n][3], rows[n][4], ParseInt(rows[n][5])>> :
        n \in 2..Len(rows)}

\* the same tuples of the grouped counts, every text as its characters
PairsGrouped(grouped) ==
    {<<chars(key[1]), chars(key[2]), chars(key[3]), key[4], grouped[key]>> :
        key \in DOMAIN grouped}

Exported == variant = "DashQA" /\ pc = "exported"

\* C20: parsing the CSV export of the grouped counts back gives the header,
\* one row of five fields per group, and the same set of (platform,
\* story_id, story_title, status) -> count pairs as the grouped counts,
\* also with story titles that are empty or hold commas or quote characters
C20_CsvRoundTrip ==
    Exported =>
        LET rows == ParseCsv(shown.csv) IN
        /\ Len(rows) = 1 + Cardinality(DOMAIN result.grouped)
        /\ rows[1] = CsvHeader
        /\ \A n \in Indices(rows) : Len(rows[n]) = 5
        /\ PairsRead(rows) = PairsGrouped(result.grouped)

\* an export with two groups, one with a title holding a comma and one with
\* an empty title
C20_Witness ==
    /\ Exported
    /\ \E a, b \in DOMAIN result.grouped : a[3] = TitleComma /\ b[3] = ""

-----------------------------------------------------------------------------
\* the status lines at offsets lo..hi from line k, clipped at the end of input
StatusLinesAt(k, lo, hi) ==
    {m \in (k + lo)..(k + hi) : m <= Len(lines) /\ HasStatus(m)}

\* a record whose status is read off the status lines W, 'Nao Executado'
\* when W is empty
StatusFrom(rec, W) ==
    IF W = {} THEN rec.status = NaoExecutado
    ELSE rec.status \in UNION {StatusesAt(m) : m \in W}

-----------------------------------------------------------------------------
\* the key lists a model that supports generateContent and has the name in
\* its own name
Usable(name) ==
    /\ genai.raises = ""
    /\ \E m \in genai.models :
          /\ "generateContent" \in m.supported_generation_methods
          /\ IsSubstring(name, m.name)

\* the names in the order of preference
Preference == <<gemini_15_pro, gemini_10_pro, gemini_pro>>

\* the summary button of DashQA_busca_modelo was pressed
SummaryAsked == report # NoReport \/ raised.in = "generate_ai_text"

(* C22: find_available_model returns the first name, in the order           *)
(* gemini-1.5-pro, gemini-1.0-pro, gemini-pro, that occurs in some listed   *)
(* model supporting generateContent; whether a model is found, none is      *)
(* found or the listing raised, exactly one of the model name and the       *)
(* error message it returns is not None; the AI summary action is offered   *)
(* only when a model name was returned.                                     *)
C22_FirstPreferredModelOrError ==
    variant = "BuscaModelo" =>
        /\ SummaryAsked => shown.dashboard = "real" /\ shown.ai.model_name # None
        /\ shown.dashboard = "real" =>
              LET ai == shown.ai IN
              /\ ai.looked_up
              /\ (ai.model_name = None) # (ai.error_message = None)
              /\ ai.offered => ai.model_name # None
              /\ \A k \in 1..Len(Preference) :
                    (Usable(Preference[k]) /\ \A j \in 1..(k - 1) : ~Usable(Preference[j]))
                        => ai.model_name = Some(Preference[k])
              /\ (\A k \in 1..Len(Preference) : ~Usable(Preference[k]))
                    => ai.model_name = None

\* the key lists gemini-1.5-pro without generateContent and two usable
\* models: gemini-1.0-pro was returned and the summary was generated with it
C22_Witness ==
    /\ variant = "BuscaModelo"
    /\ ~Usable(gemini_15_pro) /\ Usable(gemini_10_pro) /\ Usable(gemini_pro)
    /\ \E m \in genai.models : IsSubstring(gemini_15_pro, m.name)
    /\ shown.dashboard = "real"
    /\ shown.ai.model_name = Some(gemini_10_pro)
    /\ report # NoReport

-----------------------------------------------------------------------------
\* the text after the status labels of line m, as the report wrote it
WrittenStatuses(m) == {t[1] : t \in {lines[m].res, lines[m].est} \ {None}}

\* every status line of the document reads 'Nao Executado'
OnlyNaoExecutadoWritten ==
    \A m \in 1..Len(lines) : WrittenStatuses(m) \subseteq {NaoExecutado}

(* C23: in DashQA and Dash_Plataforma a test case whose status line reads   *)
(* 'Resultado da Execucao: Nao Executado' (or 'Estado da Execucao: Nao      *)
(* Executado') is counted as not executed, left out of the executed cases   *)
(* like a case with no status line: a document whose status lines all read  *)
(* 'Nao Executado' has no executed case.                                    *)
C23_WrittenNaoExecutadoIsNotExecuted ==
    (/\ variant \in {"DashQA", "Plataforma"}
     /\ pc \in {"processed", "done"}
     /\ ~result.warning
     /\ OnlyNaoExecutadoWritten)
    => result.kpis.executed_cases = 0

-----------------------------------------------------------------------------
\* the groups of the grouped table that hold the record
GroupsOf(rec) ==
    {k \in DOMAIN result.grouped :
        /\ k[1] = rec.platform
        /\ k[2] = rec.story_id
        /\ k[3] = rec.story_title
        /\ k[4] = rec.status}

(* C24: in DashQA.processar_dados_extraidos the per-status counts           *)
(* (df_status) and the grouped counts both add up to the total number of    *)
(* records, and every record is counted in exactly one group.               *)
C24_CountsAddUpToRecords ==
    (variant = "DashQA" /\ pc \in {"processed", "done"} /\ ~result.warning) =>
        /\ SumValues(result.df_status) = Len(raw_test_data)
        /\ SumValues(result.grouped) = Len(raw_test_data)
        /\ result.kpis.total_cases = Len(raw_test_data)
        /\ \A n \in 1..Len(result.df_records) :
              Cardinality(GroupsOf(result.df_records[n])) = 1

\* three or more records in two or more groups, one group with two records
C24_Witness ==
    /\ variant = "DashQA"
    /\ pc = "processed"
    /\ Len(raw_test_data) >= 3
    /\ Cardinality(DOMAIN result.grouped) >= 2
    /\ \E k \in DOMAIN result.grouped : result.grouped[k] = 2

-----------------------------------------------------------------------------
\* a percentage between 0 and 100
InPercentRange(q) == ~q.raised /\ q.den > 0 /\ 0 <= q.num /\ q.num <= 100 * q.den

(* C25: the KPIs of DashQA and Dash_Plataforma satisfy                      *)
(* 0 <= passed <= executed <= total, so the execution percentage and the    *)
(* success percentage lie between 0 and 100.                                *)
C25_KpisAreOrdered ==
    (variant \in {"DashQA", "Plataforma"} /\ pc \in {"processed", "done"}
        /\ ~result.warning) =>
        LET k == result.kpis IN
        /\ 0 <= k.passed_cases
        /\ k.passed_cases <= k.executed_cases
        /\ k.executed_cases <= k.total_cases
        /\ InPercentRange(k.percent_execution)
        /\ InPercentRange(k.percent_success)

\* a passed case and a case left without a status: 0 < passed, executed < total
C25_Witness ==
    /\ variant = "DashQA"
    /\ pc = "processed"
    /\ ~result.warning
    /\ 0 < result.kpis.passed_cases
    /\ result.kpis.executed_cases < result.kpis.total_cases
    /\ \E n \in 1..Len(raw_test_data) : raw_test_data[n].status = NaoExecutado

-----------------------------------------------------------------------------
\* the larger of two numbers
Larger(a, b) == IF a < b THEN b ELSE a

(* C26: after extract_data_from_html_doc the status counts of every         *)
(* platform add up to max(20, number of cases parsed for the platform):     *)
(* with fewer than 20 parsed the back-filled 'Nao Executado' brings the     *)
(* total to exactly 20, also when some parsed cases already had the status  *)
(* 'Nao Executado'.                                                         *)
C26_BackFillReachesTwenty ==
    DocCounted =>
        \A p \in Platforms :
            SumValues(result.test_data[p]) = Larger(20, SumValues(DocParsed[p]))

-----------------------------------------------------------------------------
\* the platform named by the nearest 'Plataforma:' heading before item k,
\* NoPlatform when there is no heading before it or the heading names none
\* of web, mobile android and mobile ios
NearestPlatform(k) ==
    LET H == {h \in 1..(k - 1) : sections[h].kind = "heading"}
    IN IF H = {} THEN NoPlatform
       ELSE PlatformOfHeading(sections[CHOOSE h \in H : \A x \in H : x <= h].text,
                              NoPlatform)

\* the tables with the parsed status s that stand under platform p
TablesUnder(p, s) ==
    {k \in Indices(sections) :
        /\ sections[k].kind = "table" /\ sections[k].has_result /\ sections[k].is_str
        /\ parse_status(TRUE, sections[k].text) = s
        /\ NearestPlatform(k) = p}

(* C27: extract_data_from_html_doc counts a table only under the platform   *)
(* named by the nearest preceding 'Plataforma:' heading: tables before the  *)
(* first heading are counted nowhere, and tables after a platform heading   *)
(* that names none of web, mobile android and mobile ios are not            *)
(* attributed to the platform of an earlier heading.                        *)
C27_TablesCountUnderNearestHeading ==
    DocCounted =>
        \A p \in Platforms : \A s \in {Passou, Falhou, Bloqueado} :
            Get(result.test_data[p], s) = Cardinality(TablesUnder(p, s))

-----------------------------------------------------------------------------
\* the panels of the story dashboard drawn for story story_id of the platform
PanelsOf(platform, story_id) ==
    {x \in DOMAIN shown.panels : shown.panels[x].key = <<platform, story_id>>}

(* C28: exibir_dashboard renders each (platform, story_id) pair exactly     *)
(* once and the chart keys 'pie-{platform}-{story_id}' and                  *)
(* 'bar-{platform}-{story_id}' are pairwise distinct, also when one story   *)
(* id appears with two different titles under one platform.                 *)
C28_OnePanelPerPlatformAndStory ==
    (variant = "DashQA" /\ pc \in {"done", "exported"} /\ shown.dashboard = "real") =>
        \A n \in 1..Len(result.df_records) :
            Cardinality(PanelsOf(result.df_records[n].platform,
                                 result.df_records[n].story_id)) = 1

-----------------------------------------------------------------------------
\* the (platform, story) groups the story dashboard shows
StoryGroups == {shown.panels[x].key : x \in DOMAIN shown.panels}

\* the KPIs shown for a group
GroupKpis(g) ==
    shown.panels[CHOOSE x \in DOMAIN shown.panels : shown.panels[x].key = g].kpis

(* C29: in DashQA the per-story passed and executed counts, summed over     *)
(* all (platform, story) groups, equal the global 'Casos Passados' and      *)
(* 'Casos Executados'.                                                      *)
C29_StoryKpisAddUpToGlobal ==
    (variant = "DashQA" /\ pc = "done" /\ shown.dashboard = "real") =>
        /\ SumOver([g \in StoryGroups |-> GroupKpis(g).passed_cases], StoryGroups)
              = result.kpis.passed_cases
        /\ SumOver([g \in StoryGroups |-> GroupKpis(g).executed_cases], StoryGroups)
              = result.kpis.executed_cases

-----------------------------------------------------------------------------
\* the lines read so far that hold a status pattern and were not consumed as
\* a platform header or a story header (DashQA_busca_modelo has no platform
\* headers)
StatusLinesRead ==
    {m \in 1..Len(lines) :
        /\ m < i
        /\ HasStatus(m)
        /\ lines[m].story = None
        /\ variant = "Plataforma" => lines[m].plat = None}

\* the records emitted for line m
RecordsOf(m) == {n \in 1..Len(raw_test_data) : raw_test_data[n].line = m}

(* C30: in Dash_Plataforma and DashQA_busca_modelo the number of emitted    *)
(* records is the number of input lines that contain a status pattern and   *)
(* are not consumed as a platform or story header: a line with both status  *)
(* patterns yields one record, two separate status lines yield two.         *)
C30_OneRecordPerStatusLine ==
    variant \in {"Plataforma", "BuscaModelo"} =>
        /\ Len(raw_test_data) = Cardinality(StatusLinesRead)
        /\ \A m \in StatusLinesRead : Cardinality(RecordsOf(m)) = 1

\* a story header that carries a result, a line with both status patterns
\* and a line with one: two records
C30_Witness ==
    /\ variant = "Plataforma"
    /\ pc = "processed"
    /\ Len(raw_test_data) = 2
    /\ \E m \in 1..Len(lines) : lines[m].story # None /\ HasStatus(m)
    /\ \E m \in StatusLinesRead : lines[m].res # None /\ lines[m].est # None
    /\ \E m \in StatusLinesRead : lines[m].est = None

============================================================================
